---------------------------- MODULE Spec2Model ----------------------------
(***************************************************************************)
(* AuroraChat: the chat relay server (server/server.py) and the chat       *)
(* client (client/client.py, client/crypto_utils.py) as state machines.    *)
(*                                                                         *)
(* Server handlers run as concurrent tasks, one per inbound event; a       *)
(* `with self.lock:` block is entered only when the lock is free.  Python  *)
(* strings are sequences of tokens (a token is a word or one blank " ");    *)
(* a missing or None field is the empty sequence, which every handler      *)
(* treats like "" (`not x`).                                               *)
(***************************************************************************)
EXTENDS Integers, Sequences, FiniteSets, TLC

(***************************************************************************)
(* Bounds of the model.                                                    *)
(***************************************************************************)
NumConns == 2        \* connections the transport opens during a run
MaxTasks == 2        \* handler tasks in flight at the same time
MaxRegister == 2     \* register events per run
MaxPrivate == 2      \* private_message events per run
MaxRead == 2         \* private_message_read events per run
HistExtra == 2       \* message events beyond MAX_PUBLIC_HISTORY per run (SpecHist)
MaxSnapshots == 1    \* request_history events per run
MaxCallers == 2      \* client threads calling ChatClient methods
MaxActions == 3      \* register and sendMessage calls per run
MaxDrops == 1        \* times the client's connection is lost per run
MaxTransfers == 2    \* file transfers per run
MaxChunks == 3       \* chunks of one transfer
MaxPayload == 3      \* bytes of a short payload
MinChunkSize == 6    \* the smallest chunk size above one byte
MaxShuffled == 6     \* chunks of a transfer that arrive in any order
MaxAcks == 1         \* file_transfer_ack events that arrive
MaxFileChunks == 2   \* private_file_chunk events of a run
MaxMessages == 2     \* public message events of a run
MaxTyping == 4       \* typing events sent within one connection
MaxServerAcks == 2   \* file_transfer_ack events the server receives per run
MaxNameRegisters == 3 \* register calls of the two clients of the username model

Sids == 1..NumConns
Slots == 1..MaxTasks
Callers == 1..MaxCallers
TransferIds == 1..MaxTransfers
NoSid == 0           \* Python None for a connection handle; "to all" for emit

(***************************************************************************)
(* server.py constants.                                                    *)
(***************************************************************************)
MAX_PUBLIC_HISTORY == 200
MAX_FILE_BYTES == 5 * 1024 * 1024

(***************************************************************************)
(* crypto_utils.py constants.                                              *)
(***************************************************************************)
AES_BLOCK_SIZE == 16

VARIABLES
    conn,                     \* transport: sid -> "new" | "live" | "closed"
    clients,                  \* ChatServer.clients: dict sid -> username, in insertion order
    lock,                     \* ChatServer.lock: the slot of the task holding it, 0 when free
    public_history,           \* ChatServer.public_history
    private_message_counter,  \* ChatServer.private_message_counter
    private_messages,         \* ChatServer.private_messages: id -> record
    tasks,                    \* slot -> the handler task running there
    emitted,                  \* the sio.emit calls of the last step, in call order
    trace                     \* history of the run (no handler reads it)

serverVars == <<conn, clients, lock, public_history, private_message_counter,
                private_messages, tasks, emitted, trace>>

VARIABLES
    connected,                \* ChatClient._connected
    connecting,               \* ChatClient._connecting
    desired_username,         \* ChatClient._desired_username
    pending_events,           \* ChatClient._pending_events
    pending_lock,             \* ChatClient._pending_lock: the caller holding it, 0 when free
    link,                     \* ChatClient._sio: "down" | "dialing" | "up"
    inbox,                    \* connect / disconnect events due on the event thread
    handler,                  \* the event thread inside connect() or disconnect()
    callers,                  \* caller thread -> its position in a ChatClient method
    sent,                     \* the events the transport took from self._sio.emit
    notified,                 \* the _notify_error calls of the last step
    qtrace                    \* history of the run (no method reads it)

queueVars == <<connected, connecting, desired_username, pending_events, pending_lock,
               link, inbox, handler, callers, sent, notified, qtrace>>

VARIABLES
    uplink,                   \* chunk events on their way to the server
    active_file_transfers,    \* ChatServer.active_file_transfers
    downlink,                 \* file_chunk events on their way to the receiving client
    received_chunks,          \* ChatClient._received_chunks
    active_transfers,         \* ChatClient._active_transfers
    transfer_lock,            \* ChatClient._transfer_lock: 1 while held, 0 when free
    progress,                 \* the last fileTransferProgress signal
    signals,                  \* the fileTransferComplete / fileTransferError signals so far
    rtrace                    \* history of the run (no handler reads it)

recvVars == <<uplink, active_file_transfers, downlink, received_chunks,
              active_transfers, transfer_lock, progress, signals, rtrace>>

VARIABLES
    file_data,                \* the bytes handed to prepare_file_for_sending
    chunk_size,               \* FileChunker.chunk_size
    aes_key,                  \* what generate_aes_key returned
    iv,                       \* what secrets.token_bytes(16) returned in encrypt_data
    transfer,                 \* what prepare_file_for_sending returned
    chunks_dict,              \* the receiver's chunks of the transfer, in insertion order
    reassembly                \* what reassemble_file returned or raised

cryptoVars == <<file_data, chunk_size, aes_key, iv, transfer, chunks_dict, reassembly>>

VARIABLES
    peer_public_key,          \* ChatClient._crypto_manager.peer_public_key
    outbox,                   \* the _emit_when_connected calls of the last file send
    strace                    \* history of the run (no method reads it)

sendVars == <<peer_public_key, outbox, strace>>

VARIABLES
    public_typing_flag,       \* ChatClient._public_typing_flag
    private_typing_flags,     \* ChatClient._private_typing_flags: the recipients stored with True
    typing_log                \* the _send_typing_state calls since the client connected

typingVars == <<public_typing_flag, private_typing_flags, typing_log>>

VARIABLES
    own_username,             \* ChatClient._username of the client on connection 1
    name_requests,            \* register events sent and not yet handled by the server
    name_snapshots,           \* users_snapshot of the register handlers that left the lock
    name_events,              \* events sent to connection 1 that its client has not handled
    name_accepted             \* the names the server stored for connection 1 (no method reads it)

nameVars == <<own_username, name_requests, name_snapshots, name_events, name_accepted>>

vars == <<serverVars, queueVars, recvVars, cryptoVars, sendVars, typingVars, nameVars>>

\* what a step of one component leaves alone
exceptServer == <<queueVars, recvVars, cryptoVars, sendVars, typingVars, nameVars>>
exceptQueue == <<serverVars, recvVars, cryptoVars, sendVars, typingVars, nameVars>>
exceptRecv == <<serverVars, queueVars, cryptoVars, sendVars, typingVars, nameVars>>
exceptCrypto == <<serverVars, queueVars, recvVars, sendVars, typingVars, nameVars>>
exceptSend == <<serverVars, queueVars, recvVars, cryptoVars, typingVars, nameVars>>
exceptTyping == <<serverVars, queueVars, recvVars, cryptoVars, sendVars, nameVars>>

(***************************************************************************)
(* Strings.                                                                *)
(***************************************************************************)
RECURSIVE lstrip(_)
lstrip(s) == IF s # <<>> /\ Head(s) = " " THEN lstrip(Tail(s)) ELSE s

RECURSIVE rstrip(_)
rstrip(s) ==
    IF s # <<>> /\ s[Len(s)] = " " THEN rstrip(SubSeq(s, 1, Len(s) - 1)) ELSE s

\* str.strip()
strip(s) == rstrip(lstrip(s))

\* the default of self.clients.get(sid, "Unknown")
Unknown == <<"Unknown">>

(***************************************************************************)
(* Event payloads (the `data` dict of a handler).                          *)
(***************************************************************************)
NoFile == [present |-> FALSE, size |-> 0, len |-> 0]

BlankData ==
    [username |-> <<>>, message |-> <<>>, recipient |-> <<>>, file |-> NoFile,
     timestamp |-> <<>>, message_ids |-> <<>>]

\* _sanitize_file_payload: the payload, or NoFile (None) when it is rejected.
\* `len` is the length of the base64 text in the "data" field.
sanitize_file_payload(f) ==
    IF ~f.present THEN NoFile
    ELSE IF f.len = 0 THEN NoFile
    ELSE IF f.size > MAX_FILE_BYTES THEN NoFile
    ELSE IF f.len > (MAX_FILE_BYTES * 4) \div 3 + 8 THEN NoFile
    ELSE f

(***************************************************************************)
(* Error texts of the server, as written in server.py ({} is the name put  *)
(* into the f-string).                                                     *)
(***************************************************************************)
ErrUsernameRequired == "A valid username is required."
ErrUsernameTaken == "Username '{}' is already taken."
ErrRecipientRequired == "A valid recipient is required."
ErrEmptyPrivate == "Cannot send an empty message. Attach a file or include text."
ErrSelfMessage == "You cannot send a private message to yourself."
ErrNotFound == "User '{}' not found or offline."
ErrInvalidFormat ==
    "Invalid private message format. Please specify recipient and message."

(***************************************************************************)
(* The clients dict: a sequence of <<sid, username>> in insertion order.   *)
(***************************************************************************)
RECURSIVE clients_get(_, _, _)
\* self.clients.get(sid, default)
clients_get(c, sid, default) ==
    IF c = <<>> THEN default
    ELSE IF Head(c)[1] = sid THEN Head(c)[2]
    ELSE clients_get(Tail(c), sid, default)

\* list(self.clients.values())
clients_values(c) == [i \in 1..Len(c) |-> c[i][2]]

\* the new name is added next to the entry the connection already has
clients_set_appending(c, sid, username) == Append(c, <<sid, username>>)

\* self.clients[sid] = username: a present key keeps its place
clients_set(c, sid, username) ==
    IF \E i \in 1..Len(c) : c[i][1] = sid
    THEN [i \in 1..Len(c) |-> IF c[i][1] = sid THEN <<sid, username>> ELSE c[i]]
    ELSE Append(c, <<sid, username>>)

\* the entry stays in the dict
clients_pop_nothing(c, sid) == c

RECURSIVE clients_pop(_, _)
\* the dict after self.clients.pop(sid, None)
clients_pop(c, sid) ==
    IF c = <<>> THEN <<>>
    ELSE IF Head(c)[1] = sid THEN clients_pop(Tail(c), sid)
    ELSE <<Head(c)>> \o clients_pop(Tail(c), sid)

RECURSIVE lookup(_, _)
\* for client_sid, username in self.clients.items(): first sid registered
\* under the name, NoSid when there is none
lookup(c, username) ==
    IF c = <<>> THEN NoSid
    ELSE IF Head(c)[2] = username THEN Head(c)[1]
    ELSE lookup(Tail(c), username)

\* no name is ever found in the registry
username_never_taken(c, username) == FALSE

\* username in self.clients.values()
username_taken(c, username) ==
    \E i \in 1..Len(c) : c[i][2] = username


(***************************************************************************)
(* Inputs.                                                                 *)
(***************************************************************************)
Usernames == {<<" ">>, <<"a">>, <<" ", "a">>, <<"b">>}

PMUsernames == {<<"a">>, <<"b">>}

\* the usernames a register can store
Names == {strip(u) : u \in Usernames \cup PMUsernames} \ {<<>>}

SmallFile == [present |-> TRUE, size |-> 3, len |-> 4]

\* load_test.py 124-128: "timestamp": time.time()
Timestamp == <<7>>

PrivateData ==
    {[BlankData EXCEPT !.recipient = r, !.message = <<"hi">>] : r \in {<<"a">>, Unknown}}
    \cup {[BlankData EXCEPT !.recipient = <<"b">>, !.message = <<"hi">>,
                            !.timestamp = Timestamp]}
    \cup {[BlankData EXCEPT !.recipient = <<"b">>, !.file = SmallFile]}

\* the public message events: text with blanks around it and a timestamp
\* (load_test.py 106-109), bare text, blanks only, a file without text
PublicData ==
    {[BlankData EXCEPT !.message = <<" ", "hi", " ">>, !.timestamp = Timestamp],
     [BlankData EXCEPT !.message = <<"x">>],
     [BlankData EXCEPT !.message = <<" ">>],
     [BlankData EXCEPT !.file = SmallFile]}

\* file payloads around the two limits of _sanitize_file_payload: declared
\* sizes and lengths of the base64 text
FilePayloads ==
    {[present |-> TRUE, size |-> n, len |-> l] :
        n \in {0, 3, MAX_FILE_BYTES, MAX_FILE_BYTES + 1},
        l \in {0, 4, 13, (MAX_FILE_BYTES * 4) \div 3 + 8,
               (MAX_FILE_BYTES * 4) \div 3 + 9}}

ReadIds == {<<1>>, <<1, 1>>, <<0, 2>>}

MsgIds == 0..MaxPrivate

Kinds == {"connect", "disconnect", "register", "message", "request_history",
          "private_message", "private_message_read", "private_file_chunk",
          "file_transfer_ack"}

(***************************************************************************)
(* Tasks.                                                                  *)
(***************************************************************************)
NoLoc ==
    [username |-> <<>>, taken |-> FALSE, users |-> <<>>, history |-> <<>>,
     rsid |-> NoSid, message |-> <<>>, file |-> NoFile, mid |-> 0,
     acks |-> <<>>]

Idle == [kind |-> "idle", sid |-> NoSid, data |-> BlankData, pc |-> "idle",
         loc |-> NoLoc]

FreeSlots == {t \in Slots : tasks[t].kind = "idle"}

\* the slot a new task takes
NewSlot == CHOOSE t \in FreeSlots : \A u \in FreeSlots : t <= u

\* the transport hands an event to a new handler task
Spawn(kind, sid, data) ==
    /\ FreeSlots # {}
    /\ tasks' = [tasks EXCEPT ![NewSlot] =
                    [kind |-> kind, sid |-> sid, data |-> data, pc |-> "start",
                     loc |-> NoLoc]]
    /\ trace' = [trace EXCEPT !.count[kind] = @ + 1]
    /\ emitted' = <<>>

\* sio.emit(ev, payload, to=to) by task t; to = NoSid is a broadcast
Emit(log, ev, to, t, payload) ==
    Append(log, [ev |-> ev, to |-> to, skip |-> NoSid, by |-> tasks[t], p |-> payload])

\* the lock never keeps a task out
lock_free_ignored(t) == TRUE

\* `with self.lock:` can be entered
lock_free(t) == lock = 0

At(t, kind, pc) == tasks[t].kind = kind /\ tasks[t].pc = pc

Finish(t) == [tasks EXCEPT ![t] = Idle]

Goto(t, pc, loc) == [tasks EXCEPT ![t].pc = pc, ![t].loc = loc]

(***************************************************************************)
(* Transport: connections open and close, events arrive.                   *)
(***************************************************************************)
transport_connect(sid) ==
    /\ conn[sid] = "new"
    /\ conn' = [conn EXCEPT ![sid] = "live"]
    /\ Spawn("connect", sid, BlankData)
    /\ UNCHANGED <<clients, lock, public_history, private_message_counter,
                   private_messages>>
    /\ UNCHANGED exceptServer

transport_disconnect(sid) ==
    /\ conn[sid] = "live"
    /\ conn' = [conn EXCEPT ![sid] = "closed"]
    /\ Spawn("disconnect", sid, BlankData)
    /\ UNCHANGED <<clients, lock, public_history, private_message_counter,
                   private_messages>>
    /\ UNCHANGED exceptServer

\* an event of a live connection reaches the server
Recv(kind, sid, data, cap) ==
    /\ conn[sid] = "live"
    /\ trace.count[kind] < cap
    /\ Spawn(kind, sid, data)
    /\ UNCHANGED <<conn, clients, lock, public_history, private_message_counter,
                   private_messages>>
    /\ UNCHANGED exceptServer

recv_register(sid, username) ==
    Recv("register", sid, [BlankData EXCEPT !.username = username], MaxRegister)

recv_message(sid, data, cap) == Recv("message", sid, data, cap)

recv_request_history(sid, cap) == Recv("request_history", sid, BlankData, cap)

recv_private_message(sid, data) == Recv("private_message", sid, data, MaxPrivate)

recv_private_message_read(sid, message_ids) ==
    Recv("private_message_read", sid, [BlankData EXCEPT !.message_ids = message_ids],
         MaxRead)

(***************************************************************************)
(* connect(sid, environ)                                                   *)
(***************************************************************************)
\* lines 80-85: the snapshot under the lock, then the emit
connect_handler(t) ==
    /\ At(t, "connect", "start")
    /\ lock_free(t)
    /\ emitted' = IF public_history # <<>>
                  THEN Emit(<<>>, "chat_history", tasks[t].sid, t,
                            [messages |-> public_history])
                  ELSE <<>>
    /\ tasks' = Finish(t)
    /\ UNCHANGED <<conn, clients, lock, public_history, private_message_counter,
                   private_messages, trace>>
    /\ UNCHANGED exceptServer

(***************************************************************************)
(* disconnect(sid): one `with self.lock:` block, the emit inside it.       *)
(***************************************************************************)
disconnect_handler(t) ==
    /\ At(t, "disconnect", "start")
    /\ lock_free(t)
    /\ LET username == clients_get(clients, tasks[t].sid, <<>>)
           rest == clients_pop(clients, tasks[t].sid)
       IN  /\ clients' = rest
           /\ emitted' = IF username # <<>>
                         THEN Emit(<<>>, "update_user_list", NoSid, t,
                                   [users |-> clients_values(rest)])
                         ELSE <<>>
           /\ trace' = IF username # <<>>
                       THEN [trace EXCEPT !.released[username] = @ + 1]
                       ELSE trace
    /\ tasks' = Finish(t)
    /\ UNCHANGED <<conn, lock, public_history, private_message_counter,
                   private_messages>>
    /\ UNCHANGED exceptServer

(***************************************************************************)
(* register(sid, data)                                                     *)
(***************************************************************************)
\* lines 101-117: validation, then the lock is taken and the name looked up
register_begin(t) ==
    /\ At(t, "register", "start")
    /\ LET username == tasks[t].data.username IN
       \/ /\ strip(username) = <<>>
          /\ emitted' = Emit(<<>>, "error", tasks[t].sid, t,
                             [message |-> ErrUsernameRequired, arg |-> <<>>])
          /\ tasks' = Finish(t)
          /\ UNCHANGED <<lock, trace>>
       \/ /\ strip(username) # <<>>
          /\ lock_free(t)
          /\ lock' = t
          /\ tasks' = Goto(t, "locked",
                           [tasks[t].loc EXCEPT
                               !.username = strip(username),
                               !.taken = username_taken(clients, strip(username))])
          /\ trace' = [trace EXCEPT !.tried[strip(username)] = @ + 1]
          /\ emitted' = <<>>
    /\ UNCHANGED <<conn, clients, public_history, private_message_counter,
                   private_messages>>
    /\ UNCHANGED exceptServer

\* lines 117-130: still inside the lock
register_commit(t) ==
    /\ At(t, "register", "locked")
    /\ lock' = 0
    /\ \/ /\ tasks[t].loc.taken
          /\ emitted' = Emit(<<>>, "error", tasks[t].sid, t,
                             [message |-> ErrUsernameTaken, arg |-> tasks[t].loc.username])
          /\ tasks' = Finish(t)
          /\ UNCHANGED <<clients, trace>>
       \/ /\ ~tasks[t].loc.taken
          /\ clients' = clients_set(clients, tasks[t].sid, tasks[t].loc.username)
          /\ tasks' = Goto(t, "emit",
                           [tasks[t].loc EXCEPT
                               !.users = clients_values(clients'),
                               !.history = public_history])
          /\ LET old == clients_get(clients, tasks[t].sid, <<>>)
                 held == [trace EXCEPT !.registered[tasks[t].loc.username] = @ + 1]
             IN  trace' = IF old # <<>> THEN [held EXCEPT !.released[old] = @ + 1]
                          ELSE held
          /\ emitted' = <<>>
    /\ UNCHANGED <<conn, public_history, private_message_counter, private_messages>>
    /\ UNCHANGED exceptServer

\* lines 132-137: the broadcast and the history, outside the lock
register_emit(t) ==
    /\ At(t, "register", "emit")
    /\ LET withList == Emit(<<>>, "update_user_list", NoSid, t,
                            [users |-> tasks[t].loc.users])
       IN  emitted' = IF tasks[t].loc.history # <<>>
                      THEN Emit(withList, "chat_history", tasks[t].sid, t,
                                [messages |-> tasks[t].loc.history])
                      ELSE withList
    /\ tasks' = Finish(t)
    /\ UNCHANGED <<conn, clients, lock, public_history, private_message_counter,
                   private_messages, trace>>
    /\ UNCHANGED exceptServer

(***************************************************************************)
(* message(sid, data)                                                      *)
(***************************************************************************)
\* lines 142-158: the sender's name under the lock, then the validation
message_begin(t) ==
    /\ At(t, "message", "start")
    /\ lock_free(t)
    /\ LET message_text == strip(tasks[t].data.message)
           file_payload == sanitize_file_payload(tasks[t].data.file)
       IN  IF message_text = <<>> /\ ~file_payload.present
           THEN tasks' = Finish(t)
           ELSE tasks' = Goto(t, "append",
                              [tasks[t].loc EXCEPT
                                  !.username = clients_get(clients, tasks[t].sid, Unknown),
                                  !.message = message_text,
                                  !.file = file_payload])
    /\ emitted' = <<>>
    /\ UNCHANGED <<conn, clients, lock, public_history, private_message_counter,
                   private_messages, trace>>
    /\ UNCHANGED exceptServer

\* the sender's name is left out
broadcast_data_anonymous(t) ==
    [username |-> Unknown, message |-> tasks[t].loc.message,
     timestamp |-> tasks[t].data.timestamp, file |-> tasks[t].loc.file]

\* lines 164-172
broadcast_data(t) ==
    [username |-> tasks[t].loc.username, message |-> tasks[t].loc.message,
     timestamp |-> tasks[t].data.timestamp, file |-> tasks[t].loc.file]

\* the oldest entry is dropped one entry too late
history_append_late(history, entry) ==
    LET appended == Append(history, entry)
    IN  IF Len(appended) > MAX_PUBLIC_HISTORY + 1 THEN Tail(appended) ELSE appended

\* lines 175-177: append, then drop the oldest entry when over the cap
history_append(history, entry) ==
    LET appended == Append(history, entry)
    IN  IF Len(appended) > MAX_PUBLIC_HISTORY THEN Tail(appended) ELSE appended

\* lines 174-177
message_append(t) ==
    /\ At(t, "message", "append")
    /\ lock_free(t)
    /\ public_history' = history_append(public_history, broadcast_data(t))
    /\ tasks' = Goto(t, "emit", tasks[t].loc)
    /\ trace' = [trace EXCEPT !.appended = Append(@, broadcast_data(t))]
    /\ emitted' = <<>>
    /\ UNCHANGED <<conn, clients, lock, private_message_counter, private_messages>>
    /\ UNCHANGED exceptServer

\* line 180
message_emit(t) ==
    /\ At(t, "message", "emit")
    /\ emitted' = Emit(<<>>, "message", NoSid, t, broadcast_data(t))
    /\ tasks' = Finish(t)
    /\ UNCHANGED <<conn, clients, lock, public_history, private_message_counter,
                   private_messages, trace>>
    /\ UNCHANGED exceptServer

(***************************************************************************)
(* request_history(sid, data)                                              *)
(***************************************************************************)
\* lines 305-308
request_history_handler(t) ==
    /\ At(t, "request_history", "start")
    /\ lock_free(t)
    /\ emitted' = Emit(<<>>, "chat_history", tasks[t].sid, t,
                       [messages |-> public_history])
    /\ tasks' = Finish(t)
    /\ UNCHANGED <<conn, clients, lock, public_history, private_message_counter,
                   private_messages, trace>>
    /\ UNCHANGED exceptServer

(***************************************************************************)
(* private_message(sid, data)                                              *)
(***************************************************************************)
\* lines 193-232, 234 and 291-299: the error the request is rejected with
\* before any lookup, "" when it is not
private_message_rejection(sender_username, data) ==
    LET recipient_username == data.recipient
        message == strip(data.message)
        file_payload == sanitize_file_payload(data.file)
    IN  IF strip(recipient_username) = <<>> THEN ErrRecipientRequired
        ELSE IF message = <<>> /\ ~file_payload.present THEN ErrEmptyPrivate
        ELSE IF sender_username = recipient_username THEN ErrSelfMessage
        ELSE IF ~(recipient_username # <<>> /\ message # <<>>) THEN ErrInvalidFormat
        ELSE ""

\* lines 185-232: the sender's name under the lock, then the validation
private_message_begin(t) ==
    /\ At(t, "private_message", "start")
    /\ lock_free(t)
    /\ LET sender_username == clients_get(clients, tasks[t].sid, Unknown)
           rejection == private_message_rejection(sender_username, tasks[t].data)
           loc == [tasks[t].loc EXCEPT
                       !.username = sender_username,
                       !.message = strip(tasks[t].data.message),
                       !.file = sanitize_file_payload(tasks[t].data.file)]
       IN  \/ /\ rejection # ""
              /\ emitted' = Emit(<<>>, "error", tasks[t].sid, t,
                                 [message |-> rejection, arg |-> <<>>, sender |-> sender_username])
              /\ tasks' = Finish(t)
           \/ /\ rejection = ""
              /\ tasks' = Goto(t, "lookup", loc)
              /\ emitted' = <<>>
    /\ UNCHANGED <<conn, clients, lock, public_history, private_message_counter,
                   private_messages, trace>>
    /\ UNCHANGED exceptServer

\* lines 235-241 and 279-290
private_message_lookup(t) ==
    /\ At(t, "private_message", "lookup")
    /\ lock_free(t)
    /\ LET recipient_username == tasks[t].data.recipient
           recipient_sid == lookup(clients, recipient_username)
       IN  \/ /\ recipient_sid = NoSid
              /\ emitted' = Emit(<<>>, "error", tasks[t].sid, t,
                                 [message |-> ErrNotFound, arg |-> recipient_username,
                                  sender |-> tasks[t].loc.username])
              /\ tasks' = Finish(t)
           \/ /\ recipient_sid # NoSid
              /\ tasks' = Goto(t, "store", [tasks[t].loc EXCEPT !.rsid = recipient_sid])
              /\ emitted' = <<>>
    /\ UNCHANGED <<conn, clients, lock, public_history, private_message_counter,
                   private_messages, trace>>
    /\ UNCHANGED exceptServer

\* the counter is read but never advanced
next_message_id_stuck(counter) == counter

\* the counter advances by two
next_message_id_skipping(counter) == counter + 2

\* lines 245-246: self.private_message_counter += 1; message_id = the counter
next_message_id(counter) == counter + 1

\* self.private_messages[message_id] = meta
private_messages_set(pm, message_id, meta) ==
    [i \in DOMAIN pm \cup {message_id} |-> IF i = message_id THEN meta ELSE pm[i]]

\* lines 244-251
private_message_store(t) ==
    /\ At(t, "private_message", "store")
    /\ lock_free(t)
    /\ LET message_id == next_message_id(private_message_counter) IN
       /\ private_message_counter' = message_id
       /\ private_messages' =
             private_messages_set(private_messages, message_id,
                 [sender_sid |-> tasks[t].sid, recipient_sid |-> tasks[t].loc.rsid,
                  status |-> "sent"])
       /\ tasks' = Goto(t, "emit", [tasks[t].loc EXCEPT !.mid = message_id])
    /\ emitted' = <<>>
    /\ UNCHANGED <<conn, clients, lock, public_history, trace>>
    /\ UNCHANGED exceptServer

\* the timestamp of the request is not forwarded
private_payload_unstamped(t, status) ==
    [sender |-> tasks[t].loc.username,
     recipient |-> tasks[t].data.recipient,
     message |-> tasks[t].loc.message,
     timestamp |-> <<>>,
     message_id |-> tasks[t].loc.mid,
     status |-> status,
     file |-> tasks[t].loc.file]

\* lines 254-270
private_payload(t, status) ==
    [sender |-> tasks[t].loc.username,
     recipient |-> tasks[t].data.recipient,
     message |-> tasks[t].loc.message,
     timestamp |-> tasks[t].data.timestamp,
     message_id |-> tasks[t].loc.mid,
     status |-> status,
     file |-> tasks[t].loc.file]

\* lines 272-275
private_message_emit(t) ==
    /\ At(t, "private_message", "emit")
    /\ emitted' = Emit(Emit(<<>>, "private_message_received", tasks[t].loc.rsid,
                            t, private_payload(t, "delivered")),
                       "private_message_sent", tasks[t].sid, t,
                       private_payload(t, "sent"))
    /\ tasks' = Finish(t)
    /\ UNCHANGED <<conn, clients, lock, public_history, private_message_counter,
                   private_messages, trace>>
    /\ UNCHANGED exceptServer

(***************************************************************************)
(* private_message_read(sid, data)                                         *)
(***************************************************************************)
\* the status is not looked at
already_seen_unchecked(message_meta) == FALSE

\* line 378
already_seen(message_meta) == message_meta.status = "seen"

\* every connection passes for the recipient
is_recipient_unchecked(message_meta, sid) == TRUE

\* line 375
is_recipient(message_meta, sid) == message_meta.recipient_sid = sid

RECURSIVE acknowledge(_, _, _, _)
\* lines 365-384: the loop over message_ids; the table and the
\* acknowledgements (<<sender_sid, message_id>>) it ends with
acknowledge(pm, acknowledgements, message_ids, sid) ==
    IF message_ids = <<>> THEN [pm |-> pm, acks |-> acknowledgements]
    ELSE LET message_id == Head(message_ids)
             rest == Tail(message_ids)
         IN  IF message_id \notin DOMAIN pm
             THEN acknowledge(pm, acknowledgements, rest, sid)
             ELSE IF ~is_recipient(pm[message_id], sid)
             THEN acknowledge(pm, acknowledgements, rest, sid)
             ELSE IF already_seen(pm[message_id])
             THEN acknowledge(pm, acknowledgements, rest, sid)
             ELSE acknowledge([pm EXCEPT ![message_id].status = "seen"],
                              Append(acknowledgements,
                                     <<pm[message_id].sender_sid, message_id>>),
                              rest, sid)

\* how often message_ids names id
Occurrences(message_ids, id) ==
    Cardinality({i \in 1..Len(message_ids) : message_ids[i] = id})

\* lines 355-384
private_message_read_begin(t) ==
    /\ At(t, "private_message_read", "start")
    /\ lock_free(t)
    /\ LET message_ids == tasks[t].data.message_ids
           r == acknowledge(private_messages, <<>>, message_ids, tasks[t].sid)
       IN  /\ private_messages' = r.pm
           /\ tasks' = IF r.acks = <<>> THEN Finish(t)
                       ELSE Goto(t, "emit", [tasks[t].loc EXCEPT !.acks = r.acks])
           /\ trace' = [trace EXCEPT !.acked =
                          [id \in MsgIds |->
                              IF id \in DOMAIN private_messages
                                 /\ private_messages[id].recipient_sid = tasks[t].sid
                              THEN @[id] + Occurrences(message_ids, id)
                              ELSE @[id]],
                                   !.refused =
                          @ \cup {id \in DOMAIN private_messages :
                                     /\ Occurrences(message_ids, id) > 0
                                     /\ private_messages[id].recipient_sid # tasks[t].sid}]
    /\ emitted' = <<>>
    /\ UNCHANGED <<conn, clients, lock, public_history, private_message_counter>>
    /\ UNCHANGED exceptServer

RECURSIVE emit_receipts(_, _, _)
\* lines 386-392
emit_receipts(log, acks, t) ==
    IF acks = <<>> THEN log
    ELSE emit_receipts(
             IF Head(acks)[1] # NoSid
             THEN Emit(log, "private_message_read", Head(acks)[1], t,
                       [message_id |-> Head(acks)[2]])
             ELSE log,
             Tail(acks), t)

private_message_read_emit(t) ==
    /\ At(t, "private_message_read", "emit")
    /\ emitted' = emit_receipts(<<>>, tasks[t].loc.acks, t)
    /\ tasks' = Finish(t)
    /\ trace' = [trace EXCEPT !.receipts =
                   [id \in MsgIds |->
                       @[id] + Cardinality({i \in 1..Len(emitted') :
                                               emitted'[i].p.message_id = id})]]
    /\ UNCHANGED <<conn, clients, lock, public_history, private_message_counter,
                   private_messages>>
    /\ UNCHANGED exceptServer

(***************************************************************************)
(* The client's outbound queue (client/client.py).  Caller threads run the *)
(* ChatClient methods; the socketio event thread runs the connect() and    *)
(* disconnect() handlers one after the other, in the order of `inbox`.     *)
(***************************************************************************)
CallerIdle == [pc |-> "idle", event |-> "", data |-> <<>>, send_immediately |-> FALSE]

HandlerIdle == [pc |-> "idle", pending |-> <<>>, queued_register |-> FALSE]

\* one (event, payload) pair
Action(event, data) == [event |-> event, data |-> data]

\* texts a caller passes to sendMessage, names it passes to register
Messages == {<<"x">>, <<"y">>, <<" ">>}

RegisterNames == {<<"a">>, <<" ">>}

ErrEmptyUsername == "Username cannot be empty."
ErrEmptyMessage == "Cannot send an empty message."
ErrConnection == "Connection error: {}"
ErrFailedToSend == "Failed to send '{}': {}"

\* self._sio.emit(event, data): the transport takes the event when the link
\* is up and raises otherwise
sio_emit(log, event, data) ==
    IF link = "up" THEN Append(log, Action(event, data)) ELSE log

\* the exception is swallowed without a report
send_failure_silent == <<>>

\* the _notify_error call of the except branch around self._sio.emit
send_failure == IF link = "up" THEN <<>> ELSE <<ErrFailedToSend>>

\* a caller enters _emit_when_connected(event, data)
emit_when_connected(c, event, data) ==
    [callers EXCEPT ![c] = [pc |-> "emit", event |-> event, data |-> data,
                            send_immediately |-> FALSE]]

\* register(username), lines 551-557
register(c, username) ==
    /\ callers[c].pc = "idle"
    /\ qtrace.calls < MaxActions
    /\ LET desired == strip(username)
       IN  IF desired = <<>>
           THEN /\ notified' = <<ErrEmptyUsername>>
                /\ qtrace' = [qtrace EXCEPT !.calls = @ + 1]
                /\ UNCHANGED <<desired_username, callers>>
           ELSE /\ desired_username' = desired
                /\ callers' = emit_when_connected(c, "register", desired)
                /\ notified' = <<>>
                /\ qtrace' = [qtrace EXCEPT
                                 !.calls = @ + 1,
                                 !.issued = Append(@, Action("register", desired))]
    /\ UNCHANGED <<connected, connecting, pending_events, pending_lock, link,
                   inbox, handler, sent>>
    /\ UNCHANGED exceptQueue

\* sendMessage(message), lines 559-560, 564-565 and 593-597: no attachment
sendMessage(c, message) ==
    /\ callers[c].pc = "idle"
    /\ qtrace.calls < MaxActions
    /\ LET text == strip(message)
       IN  IF text = <<>>
           THEN /\ notified' = <<ErrEmptyMessage>>
                /\ qtrace' = [qtrace EXCEPT !.calls = @ + 1]
                /\ UNCHANGED callers
           ELSE /\ callers' = emit_when_connected(c, "message", text)
                /\ notified' = <<>>
                /\ qtrace' = [qtrace EXCEPT
                                 !.calls = @ + 1,
                                 !.issued = Append(@, Action("message", text))]
    /\ UNCHANGED <<connected, connecting, desired_username, pending_events,
                   pending_lock, link, inbox, handler, sent>>
    /\ UNCHANGED exceptQueue

\* _emit_when_connected line 296: `with self._pending_lock:` is entered
emit_lock(c) ==
    /\ callers[c].pc = "emit"
    /\ pending_lock = 0
    /\ pending_lock' = c
    /\ callers' = [callers EXCEPT ![c].pc = "locked"]
    /\ notified' = <<>>
    /\ UNCHANGED <<connected, connecting, desired_username, pending_events, link,
                   inbox, handler, sent, qtrace>>
    /\ UNCHANGED exceptQueue

\* lines 297-300: read _connected, append when not connected, leave the block
emit_locked(c) ==
    /\ callers[c].pc = "locked"
    /\ IF connected
       THEN /\ callers' = [callers EXCEPT ![c].pc = "send",
                                          ![c].send_immediately = TRUE]
            /\ UNCHANGED pending_events
       ELSE /\ pending_events' =
                   Append(pending_events, Action(callers[c].event, callers[c].data))
            /\ callers' = [callers EXCEPT ![c].pc = "ensure"]
    /\ pending_lock' = 0
    /\ notified' = <<>>
    /\ UNCHANGED <<connected, connecting, desired_username, link, inbox, handler,
                   sent, qtrace>>
    /\ UNCHANGED exceptQueue

\* lines 301-305: the immediate send
emit_send(c) ==
    /\ callers[c].pc = "send"
    /\ sent' = sio_emit(sent, callers[c].event, callers[c].data)
    /\ notified' = send_failure
    /\ callers' = [callers EXCEPT ![c] = CallerIdle]
    /\ UNCHANGED <<connected, connecting, desired_username, pending_events,
                   pending_lock, link, inbox, handler, qtrace>>
    /\ UNCHANGED exceptQueue

\* lines 306-307 and _ensure_connected, lines 276-292: one thread dials
ensure_connected(c) ==
    /\ callers[c].pc = "ensure"
    /\ IF connected \/ connecting
       THEN UNCHANGED <<connecting, link, qtrace>>
       ELSE /\ connecting' = TRUE
            /\ link' = IF link = "down" THEN "dialing" ELSE link
            /\ qtrace' = [qtrace EXCEPT !.dials = @ + 1, !.dialed = @ + 1]
    /\ callers' = [callers EXCEPT ![c] = CallerIdle]
    /\ notified' = <<>>
    /\ UNCHANGED <<connected, desired_username, pending_events, pending_lock,
                   inbox, handler, sent>>
    /\ UNCHANGED exceptQueue

\* _connect, line 284: self._sio.connect(url) returns, the connect event is due
sio_connected ==
    /\ qtrace.dials > 0
    /\ link = "dialing"
    /\ link' = "up"
    /\ inbox' = Append(inbox, "connect")
    /\ qtrace' = [qtrace EXCEPT !.dials = @ - 1]
    /\ notified' = <<>>
    /\ UNCHANGED <<connected, connecting, desired_username, pending_events,
                   pending_lock, handler, callers, sent>>
    /\ UNCHANGED exceptQueue

\* the flag is left set when self._sio.connect(url) raises
sio_connect_failed_stuck ==
    /\ qtrace.dials > 0
    /\ link' = IF link = "dialing" THEN "down" ELSE link
    /\ qtrace' = [qtrace EXCEPT !.dials = @ - 1]
    /\ notified' = <<ErrConnection>>
    /\ UNCHANGED <<connected, connecting, desired_username, pending_events,
                   pending_lock, inbox, handler, callers, sent>>
    /\ UNCHANGED exceptQueue

\* _connect, lines 285-289: self._sio.connect(url) raises; a thread that
\* dials while the transport is connected is refused by the transport
sio_connect_failed ==
    /\ qtrace.dials > 0
    /\ link' = IF link = "dialing" THEN "down" ELSE link
    /\ connecting' = FALSE
    /\ qtrace' = [qtrace EXCEPT !.dials = @ - 1]
    /\ notified' = <<ErrConnection>>
    /\ UNCHANGED <<connected, desired_username, pending_events, pending_lock,
                   inbox, handler, callers, sent>>
    /\ UNCHANGED exceptQueue

\* the server or the network closes the connection; the disconnect event is due
sio_dropped ==
    /\ link = "up"
    /\ qtrace.drops < MaxDrops
    /\ link' = "down"
    /\ inbox' = Append(inbox, "disconnect")
    /\ qtrace' = [qtrace EXCEPT !.drops = @ + 1]
    /\ notified' = <<>>
    /\ UNCHANGED <<connected, connecting, desired_username, pending_events,
                   pending_lock, handler, callers, sent>>
    /\ UNCHANGED exceptQueue

\* connect(), lines 72-75
client_connect_begin ==
    /\ handler.pc = "idle"
    /\ inbox # <<>> /\ Head(inbox) = "connect"
    /\ inbox' = Tail(inbox)
    /\ connected' = TRUE
    /\ connecting' = FALSE
    /\ handler' = [handler EXCEPT !.pc = "copy"]
    /\ notified' = <<>>
    /\ UNCHANGED <<desired_username, pending_events, pending_lock, link, callers,
                   sent, qtrace>>
    /\ UNCHANGED exceptQueue

\* a buffered register is overlooked
has_register_never(events) == FALSE

\* line 77: any(evt == "register" for evt, _ in self._pending_events)
has_register(events) == \E i \in 1..Len(events) : events[i].event = "register"

\* connect(), lines 76-81: the buffer is copied and cleared under the lock
client_connect_copy ==
    /\ handler.pc = "copy"
    /\ pending_lock = 0
    /\ handler' = [pc |-> "insert", pending |-> pending_events,
                   queued_register |-> has_register(pending_events)]
    /\ pending_events' = <<>>
    /\ qtrace' = [qtrace EXCEPT !.buffered = pending_events, !.handed = <<>>,
                                !.flushes = @ + 1]
    /\ notified' = <<>>
    /\ UNCHANGED <<connected, connecting, desired_username, pending_lock, link,
                   inbox, callers, sent>>
    /\ UNCHANGED exceptQueue

\* the synthetic register goes behind the buffered actions
flush_order_register_last(pending, desired, queued_register) ==
    IF desired # <<>> /\ ~queued_register
    THEN Append(pending, Action("register", desired))
    ELSE pending

\* lines 82-83: pending.insert(0, ("register", {"username": desired}))
flush_order(pending, desired, queued_register) ==
    IF desired # <<>> /\ ~queued_register
    THEN <<Action("register", desired)>> \o pending
    ELSE pending

\* connect(), lines 82-83
client_connect_insert ==
    /\ handler.pc = "insert"
    /\ LET pending == flush_order(handler.pending, desired_username,
                                  handler.queued_register)
       IN  handler' = IF pending = <<>>
                      THEN HandlerIdle
                      ELSE [handler EXCEPT !.pc = "send", !.pending = pending]
    /\ qtrace' = [qtrace EXCEPT !.registration = desired_username]
    /\ notified' = <<>>
    /\ UNCHANGED <<connected, connecting, desired_username, pending_events,
                   pending_lock, link, inbox, callers, sent>>
    /\ UNCHANGED exceptQueue

\* connect(), lines 84-88: one turn of the loop over pending
client_connect_send ==
    /\ handler.pc = "send"
    /\ LET next == Head(handler.pending)
           rest == Tail(handler.pending)
       IN  /\ sent' = sio_emit(sent, next.event, next.data)
           /\ qtrace' = [qtrace EXCEPT !.handed = Append(@, next)]
           /\ handler' = IF rest = <<>>
                         THEN HandlerIdle
                         ELSE [handler EXCEPT !.pending = rest]
    /\ notified' = send_failure
    /\ UNCHANGED <<connected, connecting, desired_username, pending_events,
                   pending_lock, link, inbox, callers>>
    /\ UNCHANGED exceptQueue

\* disconnect(), lines 92-94
client_disconnect_begin ==
    /\ handler.pc = "idle"
    /\ inbox # <<>> /\ Head(inbox) = "disconnect"
    /\ inbox' = Tail(inbox)
    /\ connected' = FALSE
    /\ connecting' = FALSE
    /\ handler' = [handler EXCEPT !.pc = "clear"]
    /\ notified' = <<>>
    /\ UNCHANGED <<desired_username, pending_events, pending_lock, link, callers,
                   sent, qtrace>>
    /\ UNCHANGED exceptQueue

\* disconnect(), lines 95-102: the buffer is cleared, the lock is not taken
client_disconnect_clear ==
    /\ handler.pc = "clear"
    /\ pending_events' = <<>>
    /\ handler' = HandlerIdle
    /\ notified' = <<>>
    /\ UNCHANGED <<connected, connecting, desired_username, pending_lock, link,
                   inbox, callers, sent, qtrace>>
    /\ UNCHANGED exceptQueue

\* ChatClient.__init__, lines 45-58
ClientInit ==
    /\ connected = FALSE
    /\ connecting = FALSE
    /\ desired_username = <<>>
    /\ pending_events = <<>>
    /\ pending_lock = 0
    /\ link = "down"
    /\ inbox = <<>>
    /\ handler = HandlerIdle
    /\ callers = [c \in Callers |-> CallerIdle]
    /\ sent = <<>>
    /\ notified = <<>>
    /\ qtrace = [calls |-> 0, issued |-> <<>>, drops |-> 0, flushes |-> 0,
                 buffered |-> <<>>, registration |-> <<>>, handed |-> <<>>,
                 dials |-> 0, dialed |-> 0]

(***************************************************************************)
(* Chunked file transfer: the sending client (client/crypto_utils.py), the *)
(* server relay (_handle_file_chunk) and the receiving client              *)
(* (on_file_chunk).  A chunk's bytes are the one-element sequence of its   *)
(* index.                                                                  *)
(***************************************************************************)
NoMetadata == [present |-> FALSE, total_chunks |-> 0]

\* FileChunker.create_chunk_metadata, lines 155-164
create_chunk_metadata(total_chunks) == [present |-> TRUE, total_chunks |-> total_chunks]

\* EncryptedFileTransfer.prepare_chunk, lines 206-215
prepare_chunk(transfer_id, chunk_index, total_chunks) ==
    [transfer_id |-> transfer_id,
     chunk_index |-> chunk_index,
     chunk_data |-> <<chunk_index>>,
     is_last_chunk |-> (chunk_index = total_chunks - 1),
     metadata |-> IF chunk_index = 0 THEN create_chunk_metadata(total_chunks)
                  ELSE NoMetadata]

\* _send_encrypted_file_chunks, lines 446-475: the chunks of one transfer are
\* handed over in index order
send_encrypted_file_chunks(transfer_id, total_chunks) ==
    /\ rtrace.total[transfer_id] = 0
    /\ uplink' = uplink \o
                    [i \in 1..total_chunks |->
                        prepare_chunk(transfer_id, i - 1, total_chunks)]
    /\ rtrace' = [rtrace EXCEPT !.total[transfer_id] = total_chunks]
    /\ UNCHANGED <<active_file_transfers, downlink, received_chunks,
                   active_transfers, transfer_lock, progress, signals>>
    /\ UNCHANGED exceptRecv

\* dict.get(key) of a dict kept as a function
dict_get(d, key, default) == IF key \in DOMAIN d THEN d[key] ELSE default

\* d[key] = value
dict_set(d, key, value) ==
    [k \in DOMAIN d \cup {key} |-> IF k = key THEN value ELSE d[k]]

\* _handle_file_chunk, lines 477-488 and 490-497: the transfer record
transfer_info(table, sid, data) ==
    LET known == dict_get(table, data.transfer_id,
                          [sender_sid |-> sid, total_chunks |-> 0,
                           received_chunks |-> 0, metadata |-> NoMetadata])
        first == data.metadata.present /\ data.chunk_index = 0
    IN  [known EXCEPT
            !.metadata = IF first THEN data.metadata ELSE @,
            !.total_chunks = IF first THEN data.metadata.total_chunks ELSE @,
            !.received_chunks = @ + 1]

\* _handle_file_chunk, lines 499-511: the payload that is forwarded
chunk_payload(info, data) ==
    [transfer_id |-> data.transfer_id,
     chunk_index |-> data.chunk_index,
     chunk_data |-> data.chunk_data,
     is_last_chunk |-> data.is_last_chunk,
     metadata |-> IF data.chunk_index = 0 THEN info.metadata ELSE NoMetadata]

\* all([transfer_id, chunk_index is not None, chunk_data])
valid_chunk(data) == data.transfer_id # 0 /\ data.chunk_data # <<>>

\* public_file_chunk -> _handle_file_chunk(sid, data), lines 459-538: the
\* handler tasks of the chunks in flight run in any order
handle_file_chunk(i) ==
    /\ i \in 1..Len(uplink)
    /\ LET data == uplink[i]
           info == transfer_info(active_file_transfers, NoSid, data)
       IN  IF valid_chunk(data)
           THEN /\ active_file_transfers' =
                       dict_set(active_file_transfers, data.transfer_id, info)
                /\ downlink' = Append(downlink, chunk_payload(info, data))
           ELSE UNCHANGED <<active_file_transfers, downlink>>
    /\ uplink' = [j \in 1..(Len(uplink) - 1) |->
                     IF j < i THEN uplink[j] ELSE uplink[j + 1]]
    /\ UNCHANGED <<received_chunks, active_transfers, transfer_lock, progress,
                   signals, rtrace>>
    /\ UNCHANGED exceptRecv

(***************************************************************************)
(* private_file_chunk(sid, data) -> _handle_file_chunk(sid, data, True)    *)
(***************************************************************************)
ErrInvalidChunk == "Invalid file chunk"

\* the recipient field of a private_file_chunk: a name, blanks, or nothing
\* ("" or no field at all, both `not recipient`)
ChunkRecipients == {<<"a">>, <<"b">>, <<" ">>, <<>>}

\* chunk["recipient"] = recipient
with_recipient(chunk, recipient) ==
    [transfer_id |-> chunk.transfer_id,
     chunk_index |-> chunk.chunk_index,
     chunk_data |-> chunk.chunk_data,
     is_last_chunk |-> chunk.is_last_chunk,
     metadata |-> chunk.metadata,
     recipient |-> recipient]

\* the private_file_chunk events that arrive: the chunks of a two-chunk
\* transfer, any recipient field
PrivateChunks ==
    {with_recipient(prepare_chunk(1, i, 2), r) : i \in 0..1, r \in ChunkRecipients}

recv_private_file_chunk(sid, data) ==
    /\ conn[sid] = "live"
    /\ trace.count["private_file_chunk"] < MaxFileChunks
    /\ FreeSlots # {}
    /\ tasks' = [tasks EXCEPT ![NewSlot] =
                    [kind |-> "private_file_chunk", sid |-> sid, data |-> data,
                     pc |-> "start", loc |-> NoLoc]]
    /\ trace' = [trace EXCEPT !.count["private_file_chunk"] = @ + 1]
    /\ emitted' = <<>>
    /\ UNCHANGED <<conn, clients, lock, public_history, private_message_counter,
                   private_messages>>
    /\ UNCHANGED exceptServer

\* lines 461-473: the sender's name under the lock, then the validity check
private_file_chunk_begin(t) ==
    /\ At(t, "private_file_chunk", "start")
    /\ lock_free(t)
    /\ LET sender_username == clients_get(clients, tasks[t].sid, Unknown)
       IN  IF valid_chunk(tasks[t].data)
           THEN /\ tasks' = Goto(t, "relay", [tasks[t].loc EXCEPT !.username = sender_username])
                /\ emitted' = <<>>
           ELSE /\ emitted' = Emit(<<>>, "error", tasks[t].sid, t,
                                   [message |-> ErrInvalidChunk, arg |-> <<>>,
                                    sender |-> sender_username])
                /\ tasks' = Finish(t)
    /\ UNCHANGED <<conn, clients, lock, public_history, private_message_counter,
                   private_messages, trace>>
    /\ UNCHANGED exceptServer

\* line 513: `if is_private and recipient:`
to_recipient_only(is_private, recipient) == is_private /\ recipient # <<>>

\* lines 475-538 with is_private = True: the block under file_transfer_lock;
\* the recipient is looked up under self.lock inside it
private_file_chunk_relay(t) ==
    /\ At(t, "private_file_chunk", "relay")
    /\ lock_free(t)
    /\ LET data == tasks[t].data
           recipient == data.recipient
           info == transfer_info(active_file_transfers, tasks[t].sid, data)
           recipient_sid == lookup(clients, recipient)
       IN  /\ active_file_transfers' =
                  dict_set(active_file_transfers, data.transfer_id, info)
           /\ emitted' =
                  IF to_recipient_only(TRUE, recipient)
                  THEN IF recipient_sid # NoSid
                       THEN Emit(<<>>, "file_chunk", recipient_sid, t,
                                 chunk_payload(info, data))
                       ELSE Emit(<<>>, "error", tasks[t].sid, t,
                                 [message |-> ErrNotFound, arg |-> recipient,
                                  sender |-> tasks[t].loc.username])
                  ELSE Emit(<<>>, "file_chunk", NoSid, t, chunk_payload(info, data))
    /\ tasks' = Finish(t)
    /\ UNCHANGED <<conn, clients, lock, public_history, private_message_counter,
                   private_messages, trace>>
    /\ UNCHANGED <<uplink, downlink, received_chunks, active_transfers, transfer_lock,
                   progress, signals, rtrace>>
    /\ UNCHANGED <<queueVars, cryptoVars, sendVars, typingVars, nameVars>>

\* len(self._received_chunks[transfer_id])
received_count(chunks) == Cardinality(DOMAIN chunks)

\* on_file_chunk, line 247: the count looked up in the chunk at hand
expected_chunks(metadata) == IF metadata.present THEN metadata.total_chunks ELSE 0

\* on_file_chunk(data), lines 224-255; _reassemble_file starts by taking
\* _transfer_lock (line 407), which the calling handler still holds
on_file_chunk ==
    /\ downlink # <<>>
    /\ valid_chunk(Head(downlink))
    /\ transfer_lock = 0
    /\ LET data == Head(downlink)
           chunks == dict_set(dict_get(received_chunks, data.transfer_id, <<>>),
                              data.chunk_index, data.chunk_data)
           expected == expected_chunks(data.metadata)
           reassemble == received_count(chunks) >= expected /\ expected > 0
       IN  /\ received_chunks' = dict_set(received_chunks, data.transfer_id, chunks)
           /\ active_transfers' =
                  IF data.metadata.present /\ data.chunk_index = 0
                  THEN dict_set(active_transfers, data.transfer_id, data.metadata)
                  ELSE active_transfers
           /\ progress' = <<data.transfer_id, received_count(chunks), expected>>
           /\ transfer_lock' = IF reassemble THEN 1 ELSE 0
           /\ rtrace' = IF reassemble
                        THEN [rtrace EXCEPT !.reassembled[data.transfer_id] = @ + 1]
                        ELSE rtrace
    /\ downlink' = Tail(downlink)
    /\ UNCHANGED <<uplink, active_file_transfers, signals>>
    /\ UNCHANGED exceptRecv

\* the bytes of a chunk after they were changed on the way
altered_bytes(chunk_data) == [i \in 1..Len(chunk_data) |-> chunk_data[i] + MaxChunks]

\* a file_chunk event whose chunk_data was changed before on_file_chunk gets
\* it (lines 225-227 read what arrived), at most once per transfer
alter_chunk(i) ==
    /\ i \in 1..Len(downlink)
    /\ downlink[i].transfer_id \notin rtrace.altered
    /\ downlink' = [downlink EXCEPT ![i].chunk_data = altered_bytes(@)]
    /\ rtrace' = [rtrace EXCEPT !.altered = @ \cup {downlink[i].transfer_id}]
    /\ UNCHANGED <<uplink, active_file_transfers, received_chunks, active_transfers,
                   transfer_lock, progress, signals>>
    /\ UNCHANGED exceptRecv

\* self._received_chunks.pop(transfer_id, None)
dict_pop(d, key) == [k \in DOMAIN d \ {key} |-> d[k]]

\* on_file_transfer_ack(data), lines 257-272, on the event thread, which is
\* free only while no handler waits for _transfer_lock
on_file_transfer_ack(transfer_id, success) ==
    /\ transfer_lock = 0
    /\ rtrace.acks < MaxAcks
    /\ signals' = signals \cup {<<IF success THEN "fileTransferComplete"
                                   ELSE "fileTransferError", transfer_id>>}
    /\ active_transfers' = dict_pop(active_transfers, transfer_id)
    /\ received_chunks' = dict_pop(received_chunks, transfer_id)
    /\ rtrace' = [rtrace EXCEPT !.acks = @ + 1]
    /\ UNCHANGED <<uplink, active_file_transfers, downlink, transfer_lock, progress>>
    /\ UNCHANGED exceptRecv

(***************************************************************************)
(* file_transfer_ack(sid, data) on the server                              *)
(***************************************************************************)
\* the acknowledgements that arrive: a known or an unknown transfer, success
\* or failure with its error text
Acks ==
    {[transfer_id |-> id, success |-> ok, error |-> IF ok THEN "" ELSE "bad hash"] :
        id \in TransferIds, ok \in BOOLEAN}

recv_file_transfer_ack(sid, data) ==
    /\ conn[sid] = "live"
    /\ trace.count["file_transfer_ack"] < MaxServerAcks
    /\ FreeSlots # {}
    /\ tasks' = [tasks EXCEPT ![NewSlot] =
                    [kind |-> "file_transfer_ack", sid |-> sid, data |-> data,
                     pc |-> "start", loc |-> NoLoc]]
    /\ trace' = [trace EXCEPT !.count["file_transfer_ack"] = @ + 1]
    /\ emitted' = <<>>
    /\ UNCHANGED <<conn, clients, lock, public_history, private_message_counter,
                   private_messages>>
    /\ UNCHANGED exceptServer

\* the error text is not passed on
ack_payload_bare(data) ==
    [transfer_id |-> data.transfer_id, success |-> data.success, error |-> ""]

\* lines 449-453: the payload forwarded to the sender
ack_payload(data) ==
    [transfer_id |-> data.transfer_id, success |-> data.success, error |-> data.error]

\* lines 439-457: the block under file_transfer_lock
file_transfer_ack(t) ==
    /\ At(t, "file_transfer_ack", "start")
    /\ LET transfer_id == tasks[t].data.transfer_id IN
       IF transfer_id \in DOMAIN active_file_transfers
       THEN LET info == active_file_transfers[transfer_id] IN
            /\ emitted' = IF info.sender_sid # NoSid
                          THEN Emit(<<>>, "file_transfer_ack", info.sender_sid, t,
                                    ack_payload(tasks[t].data))
                          ELSE <<>>
            /\ active_file_transfers' = dict_pop(active_file_transfers, transfer_id)
            /\ trace' = IF info.sender_sid # NoSid
                        THEN [trace EXCEPT !.forwarded[transfer_id] = @ + 1]
                        ELSE trace
       ELSE /\ emitted' = <<>>
            /\ UNCHANGED <<active_file_transfers, trace>>
    /\ tasks' = Finish(t)
    /\ UNCHANGED <<conn, clients, lock, public_history, private_message_counter,
                   private_messages>>
    /\ UNCHANGED <<uplink, downlink, received_chunks, active_transfers, transfer_lock,
                   progress, signals, rtrace>>
    /\ UNCHANGED <<queueVars, cryptoVars, sendVars, typingVars, nameVars>>

\* ChatServer.__init__ and ChatClient.__init__: no transfer yet
TransferInit ==
    /\ uplink = <<>>
    /\ active_file_transfers = <<>>
    /\ downlink = <<>>
    /\ received_chunks = <<>>
    /\ active_transfers = <<>>
    /\ transfer_lock = 0
    /\ progress = <<>>
    /\ signals = {}
    /\ rtrace = [total |-> [t \in TransferIds |-> 0],
                 reassembled |-> [t \in TransferIds |-> 0],
                 altered |-> {},
                 acks |-> 0]

(***************************************************************************)
(* Encryption and chunking (client/crypto_utils.py).  Bytes are the        *)
(* numbers 0..255 and a bytes object is a sequence of them.  AES is stood  *)
(* in for by a keyed permutation of 16-byte blocks, chained as CBC chains  *)
(* them; SHA-256 and base64 are injective encodings, RSA-OAEP a wrapping   *)
(* that only the private key of the same pair opens.                       *)
(***************************************************************************)
Returned(value) == [ok |-> TRUE, value |-> value, error |-> ""]

Raised(error) == [ok |-> FALSE, value |-> <<>>, error |-> error]

ErrPeerKeyNotSet == "Peer public key not set"
ErrDecryptKey == "Failed to decrypt AES key"
ErrBlockLength == "The length of the provided data is not a multiple of the block length."
ErrIndex == "index out of range"
ErrHashVerification == "File hash verification failed - file may be corrupted"

\* base64.b64encode(x).decode('utf-8') and base64.b64decode
b64encode(bytes) == [b64 |-> bytes]

b64decode(text) == text.b64

\* CryptoManager.__init__: peer_public_key is None
NoKey == 0

\* encrypt_aes_key
encrypt_aes_key(key, peer_key) ==
    IF peer_key = NoKey THEN Raised(ErrPeerKeyNotSet)
    ELSE Returned(b64encode([wrapped |-> key, pair |-> peer_key]))

\* decrypt_aes_key
decrypt_aes_key(encrypted_aes_key, private_key) ==
    IF b64decode(encrypted_aes_key).pair = private_key
    THEN Returned(b64decode(encrypted_aes_key).wrapped)
    ELSE Raised(ErrDecryptKey)

\* _pad_data: PKCS7
pad_data(data, block_size) ==
    LET padding_length == block_size - (Len(data) % block_size)
    IN  data \o [i \in 1..padding_length |-> padding_length]

\* _unpad_data: padded_data[:-padded_data[-1]]
unpad_data(padded_data) ==
    IF padded_data = <<>> THEN Raised(ErrIndex)
    ELSE LET padding_length == padded_data[Len(padded_data)]
         IN  IF padding_length = 0 \/ padding_length >= Len(padded_data)
             THEN Returned(<<>>)
             ELSE Returned(SubSeq(padded_data, 1, Len(padded_data) - padding_length))

RECURSIVE xor(_, _)
\* a ^ b on bytes
xor(a, b) ==
    IF a = 0 THEN b
    ELSE IF b = 0 THEN a
    ELSE (((a % 2) + (b % 2)) % 2) + 2 * xor(a \div 2, b \div 2)

xor_block(x, y) == [i \in 1..AES_BLOCK_SIZE |-> xor(x[i], y[i])]

\* the block cipher under one key, and its inverse
encrypt_block(block, key) ==
    [i \in 1..AES_BLOCK_SIZE |-> (block[AES_BLOCK_SIZE + 1 - i] + key + i) % 256]

decrypt_block(block, key) ==
    [i \in 1..AES_BLOCK_SIZE |->
        (block[AES_BLOCK_SIZE + 1 - i] + 512 - key - (AES_BLOCK_SIZE + 1 - i)) % 256]

RECURSIVE cbc_encrypt(_, _, _)
\* modes.CBC(iv): encryptor.update(padded_data) + encryptor.finalize()
cbc_encrypt(padded_data, key, previous) ==
    IF padded_data = <<>> THEN <<>>
    ELSE LET block == encrypt_block(xor_block(SubSeq(padded_data, 1, AES_BLOCK_SIZE),
                                              previous), key)
         IN  block \o cbc_encrypt(SubSeq(padded_data, AES_BLOCK_SIZE + 1,
                                         Len(padded_data)), key, block)

RECURSIVE cbc_decrypt(_, _, _)
\* modes.CBC(iv): decryptor.update(encrypted_data) + decryptor.finalize()
cbc_decrypt(encrypted_data, key, previous) ==
    IF encrypted_data = <<>> THEN <<>>
    ELSE LET block == SubSeq(encrypted_data, 1, AES_BLOCK_SIZE)
         IN  xor_block(decrypt_block(block, key), previous)
                 \o cbc_decrypt(SubSeq(encrypted_data, AES_BLOCK_SIZE + 1,
                                       Len(encrypted_data)), key, block)

\* encrypt_data, lines 90-108, with the IV it drew
encrypt_data(data, key, random_iv) ==
    cbc_encrypt(pad_data(data, AES_BLOCK_SIZE), key, random_iv)

\* decrypt_data, lines 112-126
decrypt_data(encrypted_data, key, iv_bytes) ==
    IF Len(encrypted_data) % AES_BLOCK_SIZE # 0 THEN Raised(ErrBlockLength)
    ELSE unpad_data(cbc_decrypt(encrypted_data, key, iv_bytes))

\* calculate_file_hash
calculate_file_hash(data) == [sha256 |-> data]

Min(a, b) == IF a <= b THEN a ELSE b

RECURSIVE chunk_loop(_, _, _)
\* for i in range(0, len(data), self.chunk_size): chunks.append(data[i:i + chunk_size])
chunk_loop(data, i, size) ==
    IF i >= Len(data) THEN <<>>
    ELSE <<SubSeq(data, i + 1, Min(i + size, Len(data)))>> \o chunk_loop(data, i + size, size)

\* the loop stops one chunk early when the last chunk is a short one
chunk_file_truncating(data, size) == chunk_loop(SubSeq(data, 1, size * (Len(data) \div size)), 0, size)

\* FileChunker.chunk_file
chunk_file(data, size) == chunk_loop(data, 0, size)

NoTransfer == Raised("")

\* EncryptedFileTransfer.prepare_file_for_sending, lines 173-204, of a transfer
\* whose manager holds peer_key
prepare_file_for_sending(data, key, random_iv, size, peer_key) ==
    LET file_hash == calculate_file_hash(data)
        encrypted_data == encrypt_data(data, key, random_iv)
        encrypted_aes_key == encrypt_aes_key(key, peer_key)
        chunks == chunk_file(encrypted_data, size)
    IN  IF ~encrypted_aes_key.ok THEN encrypted_aes_key
        ELSE Returned([metadata |-> [total_size |-> Len(data),
                                     total_chunks |-> Len(chunks),
                                     file_hash |-> file_hash,
                                     chunk_size |-> size],
                       encrypted_aes_key |-> encrypted_aes_key.value,
                       iv |-> b64encode(random_iv),
                       chunks |-> chunks,
                       total_chunks |-> Len(chunks)])

RECURSIVE join(_)
\* b''.join(chunks_data)
join(chunks_data) ==
    IF chunks_data = <<>> THEN <<>> ELSE Head(chunks_data) \o join(Tail(chunks_data))

\* EncryptedFileTransfer.reassemble_file, lines 217-239, by a manager holding
\* private_key
reassemble_file(chunks_data, encrypted_aes_key, iv_text, expected_hash, private_key) ==
    LET key == decrypt_aes_key(encrypted_aes_key, private_key)
        iv_bytes == b64decode(iv_text)
        encrypted_data == join(chunks_data)
        decrypted_data == decrypt_data(encrypted_data, key.value, iv_bytes)
    IN  IF ~key.ok THEN key
        ELSE IF ~decrypted_data.ok THEN decrypted_data
        ELSE IF calculate_file_hash(decrypted_data.value) # expected_hash
        THEN Raised(ErrHashVerification)
        ELSE Returned(decrypted_data.value)

\* the keys of a dict kept as a sequence of <<key, value>>
keys(d) == {d[i][1] : i \in 1..Len(d)}

RECURSIVE sorted(_)
\* sorted(keys), ascending
sorted(s) ==
    IF s = {} THEN <<>>
    ELSE LET least == CHOOSE x \in s : \A y \in s : x <= y
         IN  <<least>> \o sorted(s \ {least})

\* d[key] of a dict kept as a sequence of <<key, value>>
item(d, key) == d[CHOOSE i \in 1..Len(d) : d[i][1] = key][2]

\* _reassemble_file, line 415: [chunks_dict[i] for i in sorted(chunks_dict.keys())]
sorted_chunks(d) == [n \in 1..Len(d) |-> item(d, sorted(keys(d))[n])]

\* the payloads, keys and IVs the transfers are tried with
ByteValues == {0, 16, 255}

Payloads ==
    UNION {[1..n -> ByteValues] : n \in 1..MaxPayload}
        \cup {[i \in 1..AES_BLOCK_SIZE |-> i]}

ChunkSizes == {1, MinChunkSize, AES_BLOCK_SIZE - 1, AES_BLOCK_SIZE, 2 * AES_BLOCK_SIZE + 1}

AesKeys == {7, 250}

Ivs == {[i \in 1..AES_BLOCK_SIZE |-> 0], [i \in 1..AES_BLOCK_SIZE |-> (17 * i) % 256]}

\* the receiving manager's key pair; the sender holds its public key
ReceiverKey == 1

\* create_file_transfer() and prepare_file_for_sending(file_data, filename) with
\* the key and the IV that were drawn
prepare_file(data, size, key, random_iv) ==
    /\ ~transfer.ok
    /\ file_data' = data
    /\ chunk_size' = size
    /\ aes_key' = key
    /\ iv' = random_iv
    /\ transfer' = prepare_file_for_sending(data, key, random_iv, size, ReceiverKey)
    /\ UNCHANGED <<chunks_dict, reassembly>>
    /\ UNCHANGED exceptCrypto

\* on_file_chunk, line 240: chunk chunk_index arrives and is stored; transfers
\* of more than MaxShuffled chunks arrive in index order
store_chunk(chunk_index) ==
    /\ transfer.ok
    /\ chunk_index \in 0..(transfer.value.total_chunks - 1)
    /\ chunk_index \notin keys(chunks_dict)
    /\ transfer.value.total_chunks > MaxShuffled => chunk_index = Len(chunks_dict)
    /\ chunks_dict' =
           Append(chunks_dict,
                  <<chunk_index,
                    b64decode(b64encode(transfer.value.chunks[chunk_index + 1]))>>)
    /\ UNCHANGED <<file_data, chunk_size, aes_key, iv, transfer, reassembly>>
    /\ UNCHANGED exceptCrypto

\* _reassemble_file, lines 411-422, once every chunk is stored
reassemble ==
    /\ transfer.ok
    /\ Len(chunks_dict) = transfer.value.total_chunks
    /\ reassembly = NoTransfer
    /\ reassembly' = reassemble_file(sorted_chunks(chunks_dict),
                                     transfer.value.encrypted_aes_key,
                                     transfer.value.iv,
                                     transfer.value.metadata.file_hash,
                                     ReceiverKey)
    /\ UNCHANGED <<file_data, chunk_size, aes_key, iv, transfer, chunks_dict>>
    /\ UNCHANGED exceptCrypto

\* no transfer object yet
CryptoInit ==
    /\ file_data = <<>>
    /\ chunk_size = 0
    /\ aes_key = 0
    /\ iv = <<>>
    /\ transfer = NoTransfer
    /\ chunks_dict = <<>>
    /\ reassembly = NoTransfer

(***************************************************************************)
(* Sending a file (client/client.py): _send_encrypted_file_chunks and its  *)
(* fallback _send_unencrypted_file.                                        *)
(***************************************************************************)
\* the RSA key pairs of the peers, a pair known by its number
KeyPairs == {1, 2}

\* the `recipient` argument: a name, or None for a public file
SendRecipients == {<<>>, <<"b">>}

\* create_file_transfer(): EncryptedFileTransfer.__init__ builds a manager of
\* its own, CryptoManager(), whose peer_public_key is None
create_file_transfer == [crypto_manager |-> [peer_public_key |-> NoKey]]

\* on_public_key_exchange(data), lines 209-220
on_public_key_exchange(public_key) ==
    /\ peer_public_key' = public_key
    /\ UNCHANGED <<outbox, strace>>
    /\ UNCHANGED exceptSend

\* _send_unencrypted_file, lines 482-508: the one event it hands over
send_unencrypted_file(data, recipient) ==
    LET file_payload == [size |-> Len(data), data |-> b64encode(data)]
    IN  <<[event |-> IF recipient # <<>> THEN "private_message" ELSE "message",
           recipient |-> recipient,
           file |-> file_payload,
           chunk_index |-> 0,
           encrypted_aes_key |-> <<>>]>>

\* lines 449-475: the chunk events of a prepared transfer, chunk 0 with the
\* wrapped key
chunk_events(transfer_data, recipient) ==
    [n \in 1..transfer_data.total_chunks |->
        [event |-> IF recipient # <<>> THEN "private_file_chunk" ELSE "public_file_chunk",
         recipient |-> recipient,
         file |-> [size |-> Len(transfer_data.chunks[n]),
                   data |-> b64encode(transfer_data.chunks[n])],
         chunk_index |-> n - 1,
         encrypted_aes_key |-> IF n = 1 THEN <<transfer_data.encrypted_aes_key>>
                               ELSE <<>>]]

\* _send_encrypted_file_chunks, lines 437-480: the events of one call
send_encrypted_events(cached_key, data, recipient, size, key, random_iv) ==
    IF cached_key = NoKey THEN send_unencrypted_file(data, recipient)
    ELSE LET file_transfer == create_file_transfer
             transfer_data ==
                 prepare_file_for_sending(data, key, random_iv, size,
                                          file_transfer.crypto_manager.peer_public_key)
         IN  IF transfer_data.ok THEN chunk_events(transfer_data.value, recipient)
             ELSE send_unencrypted_file(data, recipient)

\* _send_encrypted_file_chunks(file_data, filename, recipient)
send_file(data, recipient, size, key, random_iv) ==
    /\ outbox' = send_encrypted_events(peer_public_key, data, recipient, size, key,
                                       random_iv)
    /\ strace' = [key_cached |-> peer_public_key # NoKey]
    /\ UNCHANGED peer_public_key
    /\ UNCHANGED exceptSend

\* ChatClient.__init__, line 62: a manager with no peer key
SendInit ==
    /\ peer_public_key = NoKey
    /\ outbox = <<>>
    /\ strace = [key_cached |-> FALSE]

(***************************************************************************)
(* Typing indicators of the client (client.py 665-694). The slots run on   *)
(* the thread of the user interface, one call after the other.             *)
(***************************************************************************)
TypingPeers == {<<"a">>, <<" ", "b">>, <<" ">>}

\* _send_typing_state, lines 665-671: the payload handed to _emit_when_connected
send_typing_state(context, is_typing, recipient) ==
    [context |-> context, is_typing |-> is_typing, recipient |-> recipient]

\* lines 673-679
indicatePublicTyping(is_typing) ==
    /\ Len(typing_log) < MaxTyping
    /\ public_typing_flag # is_typing
    /\ public_typing_flag' = is_typing
    /\ typing_log' = Append(typing_log, send_typing_state("public", is_typing, <<>>))
    /\ UNCHANGED private_typing_flags
    /\ UNCHANGED exceptTyping

\* self._private_typing_flags.get(recip): True, or None for a missing key
typing_flags_get(flags, recip) == IF recip \in flags THEN "True" ELSE "None"

\* lines 681-694
indicatePrivateTyping(recipient, is_typing) ==
    LET recip == strip(recipient)
        state == IF is_typing THEN "True" ELSE "False"
        previous == typing_flags_get(private_typing_flags, recip)
    IN  /\ Len(typing_log) < MaxTyping
        /\ recip # <<>>
        /\ previous # state
        /\ private_typing_flags' = IF is_typing THEN private_typing_flags \cup {recip}
                                                ELSE private_typing_flags \ {recip}
        /\ typing_log' = Append(typing_log, send_typing_state("private", is_typing, recip))
        /\ UNCHANGED public_typing_flag
        /\ UNCHANGED exceptTyping

\* the disconnect handler, lines 97-98; the next connection starts a new log
typing_disconnect ==
    /\ typing_log # <<>>
    /\ public_typing_flag' = FALSE
    /\ private_typing_flags' = {}
    /\ typing_log' = <<>>
    /\ UNCHANGED exceptTyping

\* lines 58-59
TypingInit ==
    /\ public_typing_flag = FALSE
    /\ private_typing_flags = {}
    /\ typing_log = <<>>

(***************************************************************************)
(* The confirmed username of a client.  The client of connection 1 and a   *)
(* second connection register names; the server's register handler is     *)
(* its locked block (server.py 113-130) followed by its broadcast (133);   *)
(* the client handles the events of its connection in the order they were  *)
(* emitted, while register() is called from the user interface.            *)
(***************************************************************************)
ClientSid == 1
OtherSid == 2

\* what is fixed by the other components while names are registered
NameFrame ==
    /\ UNCHANGED <<conn, tasks, lock, public_history, private_message_counter,
                   private_messages, emitted, trace>>
    /\ UNCHANGED <<connected, connecting, pending_events, pending_lock, link,
                   inbox, handler, callers, sent, notified, qtrace>>
    /\ UNCHANGED <<recvVars, cryptoVars, sendVars, typingVars>>

\* register(username) on a connected client, client.py 551-557: the event
\* leaves at once
register_connected(u) ==
    /\ name_accepted.calls < MaxNameRegisters
    /\ strip(u) # <<>>
    /\ [sid |-> ClientSid, username |-> strip(u)] \notin name_requests
    /\ desired_username' = strip(u)
    /\ name_requests' = name_requests \cup {[sid |-> ClientSid, username |-> strip(u)]}
    /\ name_accepted' = [name_accepted EXCEPT !.calls = @ + 1]
    /\ UNCHANGED <<clients, own_username, name_snapshots, name_events>>
    /\ NameFrame

\* the client of the other connection registers
register_other(u) ==
    /\ name_accepted.calls < MaxNameRegisters
    /\ [sid |-> OtherSid, username |-> u] \notin name_requests
    /\ name_requests' = name_requests \cup {[sid |-> OtherSid, username |-> u]}
    /\ name_accepted' = [name_accepted EXCEPT !.calls = @ + 1]
    /\ UNCHANGED <<clients, desired_username, own_username, name_snapshots, name_events>>
    /\ NameFrame

\* the events emitted to a connection reach the client of connection 1
name_deliver(log, to, event) ==
    IF to \in {ClientSid, NoSid} THEN Append(log, event) ELSE log

\* server.py 113-130: the locked block of register
name_register_locked(r) ==
    /\ r \in name_requests
    /\ name_requests' = name_requests \ {r}
    /\ IF username_taken(clients, r.username)
       THEN /\ name_events' = name_deliver(name_events, r.sid,
                                           [ev |-> "error", message |-> ErrUsernameTaken,
                                            users |-> <<>>])
            /\ UNCHANGED <<clients, name_snapshots, name_accepted>>
       ELSE /\ clients' = clients_set(clients, r.sid, r.username)
            /\ name_snapshots' =
                   name_snapshots \cup
                       {[sid |-> r.sid,
                         users |-> clients_values(clients_set(clients, r.sid, r.username))]}
            /\ name_accepted' =
                   IF r.sid = ClientSid
                   THEN [name_accepted EXCEPT !.names = @ \cup {r.username}]
                   ELSE name_accepted
            /\ UNCHANGED name_events
    /\ UNCHANGED <<desired_username, own_username>>
    /\ NameFrame

\* server.py 133: the broadcast, outside the lock
name_register_emit(sid) ==
    /\ \E snapshot \in name_snapshots :
           /\ snapshot.sid = sid
           /\ name_snapshots' = name_snapshots \ {snapshot}
           /\ name_events' = name_deliver(name_events, NoSid,
                                          [ev |-> "update_user_list", message |-> "",
                                           users |-> snapshot.users])
    /\ UNCHANGED <<clients, desired_username, own_username, name_requests, name_accepted>>
    /\ NameFrame

\* `name in users` for a list of names
in_users(name, users) == \E i \in 1..Len(users) : users[i] = name

\* on_update_user_list(data), client.py 173-186
on_update_user_list ==
    /\ name_events # <<>>
    /\ Head(name_events).ev = "update_user_list"
    /\ LET users == Head(name_events).users IN
       own_username' =
           IF desired_username # <<>> /\ in_users(desired_username, users)
           THEN desired_username
           ELSE IF own_username # <<>> /\ ~in_users(own_username, users)
           THEN <<>>
           ELSE own_username
    /\ name_events' = Tail(name_events)
    /\ UNCHANGED <<clients, desired_username, name_requests, name_snapshots, name_accepted>>
    /\ NameFrame

\* "username" in lowered or "name" in lowered, client.py 196-197
is_username_error(message) == message \in {ErrUsernameRequired, ErrUsernameTaken}

\* on_error(data), client.py 193-207
on_error ==
    /\ name_events # <<>>
    /\ Head(name_events).ev = "error"
    /\ LET message == Head(name_events).message IN
       /\ own_username' =
              IF is_username_error(message) /\ desired_username # <<>>
                     /\ desired_username = own_username
              THEN <<>>
              ELSE own_username
       /\ desired_username' =
              IF desired_username # <<>> /\ is_username_error(message)
              THEN <<>>
              ELSE desired_username
    /\ name_events' = Tail(name_events)
    /\ UNCHANGED <<clients, name_requests, name_snapshots, name_accepted>>
    /\ NameFrame

\* ChatClient.__init__, lines 47-48: no name yet
NameInit ==
    /\ own_username = <<>>
    /\ name_requests = {}
    /\ name_snapshots = {}
    /\ name_events = <<>>
    /\ name_accepted = [calls |-> 0, names |-> {}]

(***************************************************************************)
(* The server after ChatServer.__init__, no connection open yet.           *)
(***************************************************************************)
ServerInit ==
    /\ conn = [s \in Sids |-> "new"]
    /\ clients = <<>>
    /\ lock = 0
    /\ public_history = <<>>
    /\ private_message_counter = 0
    /\ private_messages = <<>>
    /\ tasks = [t \in Slots |-> Idle]
    /\ emitted = <<>>
    /\ trace = [count |-> [k \in Kinds |-> 0],
                tried |-> [n \in Names |-> 0],
                registered |-> [n \in Names |-> 0],
                released |-> [n \in Names |-> 0],
                acked |-> [id \in MsgIds |-> 0],
                receipts |-> [id \in MsgIds |-> 0],
                refused |-> {},
                forwarded |-> [id \in TransferIds |-> 0],
                appended |-> <<>>]

Init == ServerInit /\ ClientInit /\ TransferInit /\ CryptoInit /\ SendInit /\ TypingInit /\ NameInit

\* the session registry: connections, register, disconnect
Next ==
    \/ \E sid \in Sids : transport_connect(sid)
    \/ \E sid \in Sids : transport_disconnect(sid)
    \/ \E sid \in Sids, u \in Usernames :
           Recv("register", sid, [BlankData EXCEPT !.username = u], MaxRegister + 1)
    \/ \E t \in Slots : connect_handler(t)
    \/ \E t \in Slots : disconnect_handler(t)
    \/ \E t \in Slots : register_begin(t)
    \/ \E t \in Slots : register_commit(t)
    \/ \E t \in Slots : register_emit(t)

Spec == Init /\ [][Next]_vars

\* the delivery tracker: register, private_message, private_message_read
NextPM ==
    \/ \E sid \in Sids : transport_connect(sid)
    \/ \E sid \in Sids, u \in PMUsernames : recv_register(sid, u)
    \/ \E sid \in Sids, d \in PrivateData : recv_private_message(sid, d)
    \/ \E sid \in Sids, ids \in ReadIds : recv_private_message_read(sid, ids)
    \/ \E t \in Slots : connect_handler(t)
    \/ \E t \in Slots : register_begin(t)
    \/ \E t \in Slots : register_commit(t)
    \/ \E t \in Slots : register_emit(t)
    \/ \E t \in Slots : private_message_begin(t)
    \/ \E t \in Slots : private_message_lookup(t)
    \/ \E t \in Slots : private_message_store(t)
    \/ \E t \in Slots : private_message_emit(t)
    \/ \E t \in Slots : private_message_read_begin(t)
    \/ \E t \in Slots : private_message_read_emit(t)

SpecPM == Init /\ [][NextPM]_vars

\* the k-th message event carries the sender's clock reading k
HistMessage ==
    [BlankData EXCEPT !.message = <<"hi">>,
                      !.timestamp = <<trace.count["message"] + 1>>]

\* the connection that sends the public messages of SpecHist
Writer == CHOOSE sid \in Sids : \A other \in Sids : sid <= other

\* the public history: message, and the handlers that send a snapshot; one
\* connection sends the messages, each once the broadcast of the one before
\* it has gone out, the other connections ask for the history at any time
\* and register once the history is about to reach its bound, so that the
\* snapshot a register handler holds is one the bound has acted on
NextHist ==
    \/ \E sid \in Sids : transport_connect(sid)
    \/ /\ \A t \in Slots : tasks[t].kind # "message"
       /\ recv_message(Writer, HistMessage, MAX_PUBLIC_HISTORY + HistExtra)
    \/ \E sid \in Sids \ {Writer} : recv_request_history(sid, MaxSnapshots)
    \/ \E sid \in Sids \ {Writer} :
          /\ Len(public_history) >= MAX_PUBLIC_HISTORY - 1
          /\ recv_register(sid, <<"a">>)
    \/ \E t \in Slots : connect_handler(t)
    \/ \E t \in Slots : message_begin(t)
    \/ \E t \in Slots : message_append(t)
    \/ \E t \in Slots : message_emit(t)
    \/ \E t \in Slots : request_history_handler(t)
    \/ \E t \in Slots : register_begin(t)
    \/ \E t \in Slots : register_commit(t)
    \/ \E t \in Slots : register_emit(t)

SpecHist == Init /\ [][NextHist]_vars

\* the outbound queue of one client
NextQueue ==
    \/ \E c \in Callers, u \in RegisterNames : register(c, u)
    \/ \E c \in Callers, m \in Messages : sendMessage(c, m)
    \/ \E c \in Callers : emit_lock(c)
    \/ \E c \in Callers : emit_locked(c)
    \/ \E c \in Callers : emit_send(c)
    \/ \E c \in Callers : ensure_connected(c)
    \/ sio_connected
    \/ sio_connect_failed
    \/ sio_dropped
    \/ client_connect_begin
    \/ client_connect_copy
    \/ client_connect_insert
    \/ client_connect_send
    \/ client_disconnect_begin
    \/ client_disconnect_clear

SpecQueue == Init /\ [][NextQueue]_vars

\* public file transfers from one client through the server to another
NextRecv ==
    \/ \E id \in TransferIds, n \in 1..MaxChunks : send_encrypted_file_chunks(id, n)
    \/ \E i \in 1..(MaxTransfers * MaxChunks) : handle_file_chunk(i)
    \/ \E i \in 1..(MaxTransfers * MaxChunks) : alter_chunk(i)
    \/ on_file_chunk
    \/ \E id \in TransferIds, success \in BOOLEAN : on_file_transfer_ack(id, success)

SpecRecv == Init /\ [][NextRecv]_vars

\* the relay of private file chunks: register, private_file_chunk
NextRelay ==
    \/ \E sid \in Sids : transport_connect(sid)
    \/ \E sid \in Sids, u \in PMUsernames : recv_register(sid, u)
    \/ \E sid \in Sids, d \in PrivateChunks : recv_private_file_chunk(sid, d)
    \/ \E t \in Slots : connect_handler(t)
    \/ \E t \in Slots : register_begin(t)
    \/ \E t \in Slots : register_commit(t)
    \/ \E t \in Slots : register_emit(t)
    \/ \E t \in Slots : private_file_chunk_begin(t)
    \/ \E t \in Slots : private_file_chunk_relay(t)

SpecRelay == Init /\ [][NextRelay]_vars

\* the sending client: key exchange and file sends
NextSend ==
    \/ \E public_key \in KeyPairs : on_public_key_exchange(public_key)
    \/ \E data \in Payloads, recipient \in SendRecipients, size \in ChunkSizes,
          key \in AesKeys, random_iv \in Ivs :
           send_file(data, recipient, size, key, random_iv)

SpecSend == Init /\ [][NextSend]_vars

\* public messages of registered and unregistered connections
NextMsg ==
    \/ \E sid \in Sids : transport_connect(sid)
    \/ \E sid \in Sids, u \in PMUsernames : recv_register(sid, u)
    \/ \E sid \in Sids, d \in PublicData : recv_message(sid, d, MaxMessages)
    \/ \E t \in Slots : connect_handler(t)
    \/ \E t \in Slots : register_begin(t)
    \/ \E t \in Slots : register_commit(t)
    \/ \E t \in Slots : register_emit(t)
    \/ \E t \in Slots : message_begin(t)
    \/ \E t \in Slots : message_append(t)
    \/ \E t \in Slots : message_emit(t)

SpecMsg == Init /\ [][NextMsg]_vars

\* one public message that carries a file
NextFile ==
    \/ \E sid \in Sids : transport_connect(sid)
    \/ \E sid \in Sids, f \in FilePayloads :
           recv_message(sid, [BlankData EXCEPT !.file = f], 1)
    \/ \E t \in Slots : connect_handler(t)
    \/ \E t \in Slots : message_begin(t)
    \/ \E t \in Slots : message_append(t)
    \/ \E t \in Slots : message_emit(t)

SpecFile == Init /\ [][NextFile]_vars

\* the typing slots of one client
NextTyping ==
    \/ \E b \in BOOLEAN : indicatePublicTyping(b)
    \/ \E r \in TypingPeers, b \in BOOLEAN : indicatePrivateTyping(r, b)
    \/ typing_disconnect

SpecTyping == Init /\ [][NextTyping]_vars

\* the server's transfer records: chunks, acknowledgements, disconnects
NextAck ==
    \/ \E sid \in Sids : transport_connect(sid)
    \/ \E sid \in Sids : transport_disconnect(sid)
    \/ \E sid \in Sids, d \in PrivateChunks : recv_private_file_chunk(sid, d)
    \/ \E sid \in Sids, d \in Acks : recv_file_transfer_ack(sid, d)
    \/ \E t \in Slots : connect_handler(t)
    \/ \E t \in Slots : disconnect_handler(t)
    \/ \E t \in Slots : private_file_chunk_begin(t)
    \/ \E t \in Slots : private_file_chunk_relay(t)
    \/ \E t \in Slots : file_transfer_ack(t)

SpecAck == Init /\ [][NextAck]_vars

\* private messages while connections close
NextPMClose ==
    \/ \E sid \in Sids : transport_connect(sid)
    \/ \E sid \in Sids : transport_disconnect(sid)
    \/ \E sid \in Sids, u \in PMUsernames : recv_register(sid, u)
    \/ \E sid \in Sids, d \in PrivateData : recv_private_message(sid, d)
    \/ \E t \in Slots : connect_handler(t)
    \/ \E t \in Slots : disconnect_handler(t)
    \/ \E t \in Slots : register_begin(t)
    \/ \E t \in Slots : register_commit(t)
    \/ \E t \in Slots : register_emit(t)
    \/ \E t \in Slots : private_message_begin(t)
    \/ \E t \in Slots : private_message_lookup(t)
    \/ \E t \in Slots : private_message_store(t)
    \/ \E t \in Slots : private_message_emit(t)

SpecPMClose == Init /\ [][NextPMClose]_vars

\* two clients register names; the first one's confirmed username
NextName ==
    \/ \E u \in PMUsernames : register_connected(u)
    \/ \E u \in PMUsernames : register_other(u)
    \/ \E sid \in {ClientSid, OtherSid}, u \in PMUsernames :
           name_register_locked([sid |-> sid, username |-> u])
    \/ \E sid \in {ClientSid, OtherSid} : name_register_emit(sid)
    \/ on_update_user_list
    \/ on_error

SpecName == Init /\ [][NextName]_vars

\* one encrypted transfer from prepare_file_for_sending to reassemble_file
NextChunk ==
    \/ \E data \in Payloads, size \in ChunkSizes, key \in AesKeys, random_iv \in Ivs :
           prepare_file(data, size, key, random_iv)
    \/ \E chunk_index \in 0..(2 * AES_BLOCK_SIZE) : store_chunk(chunk_index)
    \/ reassemble

SpecChunk == Init /\ [][NextChunk]_vars

(***************************************************************************)
(* Session registry.                                                       *)
(***************************************************************************)
AllIdle == \A t \in Slots : tasks[t].kind = "idle"

\* the entries of the registry that hold the name
HoldersOf(n) == {i \in 1..Len(clients) : clients[i][2] = n}

\* register handlers that looked the name up and have not committed yet
Committing(n) ==
    {t \in Slots : At(t, "register", "locked") /\ tasks[t].loc.username = n}

\* C1: under any interleaving of register handlers no two connections hold
\* the same username and no connection holds two; every successful register
\* of a name beyond the first follows a release of that name, and once an
\* attempt for a name has gone through, the name has been given out: of the
\* attempts for a name that was free and is never released exactly one
\* succeeds.
C1_UniqueUsernames ==
    /\ \A i, j \in 1..Len(clients) :
          i # j => clients[i][1] # clients[j][1] /\ clients[i][2] # clients[j][2]
    /\ \A n \in Names :
          /\ trace.registered[n] = trace.released[n] + Cardinality(HoldersOf(n))
          /\ trace.tried[n] > Cardinality(Committing(n)) => trace.registered[n] >= 1
          /\ trace.released[n] = 0 => trace.registered[n] <= 1

\* two connections asked for the same name, the second was told it is taken
C1_Witness ==
    /\ AllIdle
    /\ \E n \in Names :
          /\ trace.tried[n] = 2 /\ trace.registered[n] = 1 /\ trace.released[n] = 0
          /\ \E i \in 1..Len(emitted) :
                /\ emitted[i].ev = "error"
                /\ emitted[i].p.message = ErrUsernameTaken
                /\ emitted[i].p.arg = n
                /\ lookup(clients, n) \notin {NoSid, emitted[i].to}

\* C2: once the disconnect handler of a connection and every other handler
\* of that connection have finished, the registry holds no entry for it.
C2_NoEntryAfterDisconnect ==
    \A sid \in Sids :
        (conn[sid] = "closed" /\ \A t \in Slots : tasks[t].sid # sid)
            => clients_get(clients, sid, <<>>) = <<>>

(***************************************************************************)
(* Delivery tracker.                                                       *)
(***************************************************************************)
StatusRank(status) ==
    CASE status = "sent" -> 1 [] status = "delivered" -> 2 [] status = "seen" -> 3

\* C3: no step removes a private-message record or moves its stored status
\* backwards in Sent < Delivered < Seen; a Seen record stays Seen.
C3_StatusNeverRegresses ==
    [][\A id \in DOMAIN private_messages :
          /\ id \in DOMAIN private_messages'
          /\ StatusRank(private_messages'[id].status)
                >= StatusRank(private_messages[id].status)]_vars

\* a record is Seen, was acknowledged again, and a later message was stored
C3_Witness ==
    /\ private_message_counter = 2
    /\ 1 \in DOMAIN private_messages
    /\ private_messages[1].status = "seen"
    /\ trace.acked[1] >= 2
    /\ 2 \in DOMAIN private_messages

\* receipts for id that a read handler has decided on and not yet emitted
PendingReceipts(id) ==
    LET waiting(t) ==
            IF At(t, "private_message_read", "emit")
            THEN Cardinality({i \in 1..Len(tasks[t].loc.acks) :
                                 tasks[t].loc.acks[i][2] = id})
            ELSE 0
        sum[t \in 0..MaxTasks] == IF t = 0 THEN 0 ELSE sum[t - 1] + waiting(t)
    IN  sum[MaxTasks]

\* C4: for every private message id the receipts emitted so far plus the
\* receipts decided on are one when the record is Seen and none otherwise:
\* however often and by however many handlers an id is acknowledged, at most
\* one private_message_read receipt is emitted for it.
C4_AtMostOneReceipt ==
    \A id \in MsgIds :
        trace.receipts[id] + PendingReceipts(id) =
            IF id \in DOMAIN private_messages /\ private_messages[id].status = "seen"
            THEN 1 ELSE 0

\* the recipient acknowledged an id more than once; one receipt went out
C4_Witness ==
    /\ AllIdle
    /\ \E id \in MsgIds : trace.acked[id] >= 3 /\ trace.receipts[id] = 1

\* C5: a private message is never stored or delivered with the sender's own
\* connection as its recipient.
C5_SelfMessageRejected ==
    /\ \A id \in DOMAIN private_messages :
          private_messages[id].sender_sid # private_messages[id].recipient_sid
    /\ \A i \in 1..Len(emitted) :
          emitted[i].ev = "private_message_received" => emitted[i].to # emitted[i].by.sid

\* C6: a private_message handler that ends while no connection is registered
\* under the recipient it names (a non-blank recipient, text or a valid file)
\* emits one error to the sender, and its text contains "not found".
C6_UnknownRecipientNotFound ==
    \A i \in 1..Len(emitted) :
        LET e == emitted[i] IN
        (/\ e.by.kind = "private_message"
         /\ strip(e.by.data.recipient) # <<>>
         /\ (strip(e.by.data.message) # <<>>
                \/ sanitize_file_payload(e.by.data.file).present)
         /\ lookup(clients, e.by.data.recipient) = NoSid)
            => /\ Len(emitted) = 1
               /\ e.ev = "error"
               /\ e.to = e.by.sid
               /\ e.p.message = ErrNotFound


(***************************************************************************)
(* Public history.                                                         *)
(***************************************************************************)
\* the last n entries of s
LastN(s, n) == IF Len(s) <= n THEN s ELSE SubSeq(s, Len(s) - n + 1, Len(s))

\* C7: the public history never holds more than 200 entries and always is
\* the (at most) 200 most recently appended entries in append order; every
\* snapshot sent as chat_history is such a window of the appended entries.
C7_HistoryBound ==
    /\ Len(public_history) <= MAX_PUBLIC_HISTORY
    /\ public_history = LastN(trace.appended, MAX_PUBLIC_HISTORY)
    /\ \A i \in 1..Len(emitted) :
          emitted[i].ev = "chat_history" =>
             /\ Len(emitted[i].p.messages) <= MAX_PUBLIC_HISTORY
             /\ \E j \in 0..Len(trace.appended) :
                   emitted[i].p.messages =
                       LastN(SubSeq(trace.appended, 1, j), MAX_PUBLIC_HISTORY)

\* more than 200 messages were appended and a snapshot of 200 entries,
\* starting after the evicted ones, was sent
C7_Witness ==
    /\ Len(trace.appended) > MAX_PUBLIC_HISTORY
    /\ \E i \in 1..Len(emitted) :
          /\ emitted[i].ev = "chat_history"
          /\ Len(emitted[i].p.messages) = MAX_PUBLIC_HISTORY
          /\ emitted[i].p.messages[1] =
                trace.appended[Len(trace.appended) - MAX_PUBLIC_HISTORY + 1]


(***************************************************************************)
(* Outbound queue.                                                         *)
(***************************************************************************)
\* how often the pair occurs in a sequence of events
Count(events, a) == Cardinality({i \in 1..Len(events) : events[i] = a})

\* the events of the current flush in the order the connect handler hands
\* them to the transport: those handed over, then those still to come
FlushSequence == qtrace.handed \o handler.pending

\* a is what is left of b after dropping some of b's elements
RECURSIVE IsSubsequence(_, _)
IsSubsequence(a, b) ==
    IF a = <<>> THEN TRUE
    ELSE IF b = <<>> THEN FALSE
    ELSE IF Head(a) = Head(b) THEN IsSubsequence(Tail(a), Tail(b))
    ELSE IsSubsequence(a, Tail(b))

\* C8 (as amended): on connect the flush hands the transport the buffered
\* actions in buffer order, and puts a register for the desired username in
\* front of them exactly when a desired username is set and no register is
\* in the buffer; a register that was itself buffered after X and Y stays
\* behind them.  While the connection has never been lost the transport
\* takes these events in this order.
C8_FlushOrder ==
    /\ handler.pc = "insert" =>
          /\ handler.pending = qtrace.buffered
          /\ qtrace.handed = <<>>
    /\ handler.pc # "insert" =>
          FlushSequence =
              IF qtrace.registration # <<>> /\ ~has_register(qtrace.buffered)
              THEN <<Action("register", qtrace.registration)>> \o qtrace.buffered
              ELSE qtrace.buffered
    /\ qtrace.drops = 0 => IsSubsequence(qtrace.handed, sent)

\* after a lost connection x and y were buffered with the username "a"
\* still desired; the flush handed over register, x, y
C8_Witness ==
    /\ handler.pc = "idle"
    /\ qtrace.buffered = <<Action("message", <<"x">>), Action("message", <<"y">>)>>
    /\ qtrace.handed = <<Action("register", <<"a">>)>> \o qtrace.buffered
    /\ Len(sent) >= 3
    /\ SubSeq(sent, Len(sent) - 2, Len(sent)) = qtrace.handed

\* C8 (as stated): whenever a desired username is set at the time of the
\* flush, the first event the flush hands to the transport is a register
C8_RegisterFirst ==
    (handler.pc # "insert" /\ qtrace.registration # <<>> /\ FlushSequence # <<>>)
        => FlushSequence[1].event = "register"

\* the copies of an event: taken by the transport, buffered, held by the
\* flush, or held by a caller that has not yet buffered or sent it
Copies(a) ==
    Count(sent, a) + Count(pending_events, a) + Count(handler.pending, a)
        + Cardinality({c \in Callers :
                          /\ callers[c].pc \in {"emit", "locked", "send"}
                          /\ Action(callers[c].event, callers[c].data) = a})

\* C9: while the connection has not been lost, every issued action has
\* exactly one copy on its way or taken by the transport, and the transport
\* takes nothing that was not issued: nothing is dropped, nothing sent twice
C9_ExactlyOnce ==
    qtrace.drops = 0 =>
        \A a \in {qtrace.issued[i] : i \in 1..Len(qtrace.issued)}
                    \cup {sent[i] : i \in 1..Len(sent)} :
            Copies(a) = Count(qtrace.issued, a)

(***************************************************************************)
(* Chunk reassembly on the receiving client.                               *)
(***************************************************************************)
\* C10: once chunk 0 of a transfer has announced n chunks and n distinct
\* chunk indices of that transfer are stored, _reassemble_file has been called
C10_ReassemblyTriggered ==
    \A id \in TransferIds :
        (/\ id \in DOMAIN active_transfers
         /\ id \in DOMAIN received_chunks
         /\ received_count(received_chunks[id]) >= active_transfers[id].total_chunks)
            => rtrace.reassembled[id] >= 1

(***************************************************************************)
(* Chunk round trip.                                                       *)
(***************************************************************************)
Ceil(n, d) == IF n % d = 0 THEN n \div d ELSE n \div d + 1

\* some chunk was stored after a chunk of a higher index
OutOfOrder(d) == \E i, j \in 1..Len(d) : i < j /\ d[i][1] > d[j][1]

StoredAltered(id) ==
    /\ id \in DOMAIN received_chunks
    /\ \E k \in DOMAIN received_chunks[id] : received_chunks[id][k] # <<k>>

\* C12: a transfer that _reassemble_file was called for and that holds an
\* altered chunk, so that the hash of the decrypted data is not the hash of the
\* metadata, has ended with a fileTransferError signal
C12_MismatchSignalled ==
    \A id \in TransferIds :
        (rtrace.reassembled[id] >= 1 /\ StoredAltered(id))
            => <<"fileTransferError", id>> \in signals

\* C15: once _reassemble_file has been called for a transfer, the transfer has
\* no entry in _received_chunks and none in _active_transfers
C15_BuffersRemoved ==
    \A id \in TransferIds :
        rtrace.reassembled[id] >= 1
            => (id \notin DOMAIN received_chunks /\ id \notin DOMAIN active_transfers)

(***************************************************************************)
(* Private file chunks.                                                    *)
(***************************************************************************)
\* C13: a file_chunk emitted for a private_file_chunk event goes to one
\* connection, the one registered under the recipient name of the event, and
\* is never a broadcast, whatever the recipient field holds
C13_PrivateChunkToRecipientOnly ==
    \A i \in 1..Len(emitted) :
        (emitted[i].by.kind = "private_file_chunk" /\ emitted[i].ev = "file_chunk")
            => /\ emitted[i].to # NoSid
               /\ clients_get(clients, emitted[i].to, Unknown) = emitted[i].by.data.recipient

(***************************************************************************)
(* Encrypted sending.                                                      *)
(***************************************************************************)
\* C14: a file sent while a peer public key is cached goes out as file chunk
\* events, chunk 0 carrying the wrapped AES key; the events of the
\* unencrypted fallback appear only when no peer key was cached
C14_EncryptedWhenKeyCached ==
    (outbox # <<>> /\ strace.key_cached) =>
        /\ \A n \in 1..Len(outbox) :
               outbox[n].event \in {"private_file_chunk", "public_file_chunk"}
        /\ outbox[1].encrypted_aes_key # <<>>

(***************************************************************************)
(* Private messages: outcome of one request.                               *)
(***************************************************************************)
\* the request of the task that emitted e names a recipient registered on
\* another connection
ToOtherRegistered(e) ==
    lookup(clients, e.by.data.recipient) \notin {NoSid, e.by.sid}

\* C16: a private_message with a valid file and no text, to a recipient
\* registered on another connection, is answered with the two delivery
\* events, never with an error
C16_FileOnlyDelivered ==
    \A i \in 1..Len(emitted) :
        (/\ emitted[i].by.kind = "private_message"
         /\ strip(emitted[i].by.data.message) = <<>>
         /\ sanitize_file_payload(emitted[i].by.data.file).present
         /\ ToOtherRegistered(emitted[i]))
            => emitted[i].ev \in {"private_message_received", "private_message_sent"}

\* the last step emitted the events of a routed private message
Routed ==
    \E i \in 1..Len(emitted) :
        /\ emitted[i].by.kind = "private_message"
        /\ emitted[i].ev \in {"private_message_received", "private_message_sent"}

\* C17: a routed private_message emits two events and has one record:
\* private_message_received with status "delivered" to the recipient's
\* connection, private_message_sent with status "sent" to the sender's
\* connection, both with the message_id of the record and with the timestamp
\* of the request
C17_TwoEventsOneRecord ==
    Routed =>
        /\ Len(emitted) = 2
        /\ LET received == emitted[1]
               sent_ack == emitted[2]
               request == emitted[1].by
               message_id == received.p.message_id
           IN  /\ received.ev = "private_message_received"
               /\ sent_ack.ev = "private_message_sent"
               /\ sent_ack.by = request
               /\ received.p.status = "delivered"
               /\ sent_ack.p.status = "sent"
               /\ sent_ack.p.message_id = message_id
               /\ message_id \in DOMAIN private_messages
               /\ message_id \in 1..private_message_counter
               /\ private_messages[message_id].sender_sid = request.sid
               /\ received.to = private_messages[message_id].recipient_sid
               /\ received.to # NoSid
               /\ received.skip = NoSid
               /\ sent_ack.to = request.sid
               /\ sent_ack.skip = NoSid
               /\ received.p.timestamp = request.data.timestamp
               /\ sent_ack.p.timestamp = request.data.timestamp

C17_Witness ==
    /\ Routed
    /\ Len(emitted) = 2
    /\ emitted[1].p.timestamp = Timestamp
    /\ emitted[2].p.timestamp = Timestamp
    /\ emitted[1].to # emitted[2].to
    /\ emitted[1].p.message_id = 2

\* a private_message task still has the events of record id to emit
Routing(id) == \E t \in Slots : At(t, "private_message", "emit") /\ tasks[t].loc.mid = id

\* C18: the stored status of a record whose message was routed to the
\* recipient is "delivered", or "seen" after that
C18_DeliveredWhenRouted ==
    \A id \in DOMAIN private_messages :
        ~Routing(id) => private_messages[id].status \in {"delivered", "seen"}

(***************************************************************************)
(* Message ids.                                                            *)
(***************************************************************************)
\* the private_message tasks that hold an allocated id
Allocated == {t \in Slots : At(t, "private_message", "emit")}

\* C19: the ids in use are 1, 2, ... up to the counter, one per stored record;
\* two handlers never hold the same id, and a step leaves the counter alone
\* or advances it by one, giving the new id to one new record, while every
\* record keeps its id and its two connections
C19_IdsIncreaseByOne ==
    /\ [](/\ DOMAIN private_messages = 1..private_message_counter
          /\ \A t \in Allocated :
                 /\ tasks[t].loc.mid \in DOMAIN private_messages
                 /\ private_messages[tasks[t].loc.mid].sender_sid = tasks[t].sid
          /\ \A t1, t2 \in Allocated :
                 tasks[t1].loc.mid = tasks[t2].loc.mid => t1 = t2)
    /\ [][/\ private_message_counter' \in {private_message_counter,
                                            private_message_counter + 1}
          /\ DOMAIN private_messages' = 1..private_message_counter'
          /\ \A id \in DOMAIN private_messages :
                 /\ private_messages'[id].sender_sid = private_messages[id].sender_sid
                 /\ private_messages'[id].recipient_sid
                        = private_messages[id].recipient_sid]_vars

\* two handlers hold the ids 1 and 2 at the same time
C19_Witness ==
    /\ private_message_counter = 2
    /\ \E t1, t2 \in Allocated : tasks[t1].loc.mid = 1 /\ tasks[t2].loc.mid = 2

(***************************************************************************)
(* Read acknowledgements.                                                  *)
(***************************************************************************)
\* task t runs the locked block of private_message_read in this step
Acknowledging(t) == At(t, "private_message_read", "start") /\ tasks'[t] # tasks[t]

\* C20: a private_message_read from a connection that is not the stored
\* recipient of a record leaves the record as it is and collects no receipt
\* for it; a record is Seen only after its recipient connection named it, and
\* every receipt comes from a request of the record's recipient connection
C20_OnlyRecipientAcknowledges ==
    /\ [](\A id \in DOMAIN private_messages :
             private_messages[id].status = "seen" => trace.acked[id] >= 1)
    /\ [](\A i \in 1..Len(emitted) :
             emitted[i].ev = "private_message_read"
                => emitted[i].by.sid
                      = private_messages[emitted[i].p.message_id].recipient_sid)
    /\ [][\A t \in Slots :
             Acknowledging(t) =>
                 \A id \in DOMAIN private_messages :
                     private_messages[id].recipient_sid # tasks[t].sid =>
                         /\ private_messages'[id] = private_messages[id]
                         /\ \A k \in 1..Len(tasks'[t].loc.acks) :
                                tasks'[t].loc.acks[k][2] # id]_vars

\* a read of record 1 by a connection that is not its recipient was handled
\* and the record is still not Seen
C20_Witness ==
    /\ 1 \in trace.refused
    /\ 1 \in DOMAIN private_messages
    /\ private_messages[1].status = "sent"
    /\ private_messages[1].recipient_sid # private_messages[1].sender_sid
    /\ trace.acked[1] = 0
    /\ \A t \in Slots : tasks[t] = Idle

(***************************************************************************)
(* Registration: rejection, renaming, user-list broadcasts.                *)
(***************************************************************************)
\* e is the username-taken error of a register handler
TakenError(e) ==
    e.by.kind = "register" /\ e.ev = "error" /\ e.p.message = ErrUsernameTaken

\* task t leaves the locked block of register in this step
Deciding(t) == At(t, "register", "locked") /\ tasks'[t] # tasks[t]

\* C21: a register is answered with the username-taken error exactly when
\* some entry of the registry, the requester's own included, holds the
\* trimmed name; the error is the only event of the step, goes to the
\* requester alone, and the registry stays as it was
C21_TakenExactlyWhenHeld ==
    /\ [](\A i \in 1..Len(emitted) :
             TakenError(emitted[i]) =>
                 /\ Len(emitted) = 1
                 /\ emitted[i].to = emitted[i].by.sid
                 /\ emitted[i].skip = NoSid
                 /\ emitted[i].p.arg = strip(emitted[i].by.data.username)
                 /\ HoldersOf(emitted[i].p.arg) # {})
    /\ [][\A t \in Slots :
             Deciding(t) =>
                 IF HoldersOf(strip(tasks[t].data.username)) # {}
                 THEN /\ clients' = clients
                      /\ Len(emitted') = 1
                      /\ TakenError(emitted'[1])
                      /\ tasks'[t] = Idle
                 ELSE /\ clients_get(clients', tasks[t].sid, <<>>)
                            = strip(tasks[t].data.username)
                      /\ emitted' = <<>>]_vars

\* a connection that holds a name asked for the same name again
C21_Witness ==
    /\ Len(emitted) = 1
    /\ TakenError(emitted[1])
    /\ lookup(clients, emitted[1].p.arg) = emitted[1].to
    /\ emitted[1].by.data.username = <<" ", "a">>

\* the name the connection of task t holds before the step
OldName(t) == clients_get(clients, tasks[t].sid, <<>>)

\* task t stores a new name for a connection that holds another one
Renaming(t) ==
    /\ Deciding(t)
    /\ OldName(t) # <<>>
    /\ OldName(t) # strip(tasks[t].data.username)
    /\ HoldersOf(strip(tasks[t].data.username)) = {}

\* C22: when a connection registered as A registers again under an unused
\* name B, the registry keeps one entry for it, now B, and no entry holds A
\* any more: A is free again
C22_RenameReleasesOldName ==
    [][\A t \in Slots :
          Renaming(t) =>
              /\ Len(clients') = Len(clients)
              /\ clients_get(clients', tasks[t].sid, <<>>) = strip(tasks[t].data.username)
              /\ ~username_taken(clients', OldName(t))]_vars

\* C22 as stated: after the rename the old name A is still claimed
C22_OldNameStillClaimed ==
    [][\A t \in Slots : Renaming(t) => username_taken(clients', OldName(t))]_vars

\* connection 1 went from "a" to "b" and connection 2 then got "a", with no
\* disconnect
C22_Witness ==
    /\ clients = << <<1, <<"b">> >>, <<2, <<"a">> >> >>
    /\ trace.registered[<<"a">>] = 2
    /\ trace.released[<<"a">>] = 1
    /\ \A sid \in Sids : conn[sid] = "live"

\* e is an update_user_list broadcast
UserList(e) == e.ev = "update_user_list" /\ e.to = NoSid /\ e.skip = NoSid

\* the update_user_list events among the events of a step
UserLists(log) == {i \in 1..Len(log) : log[i].ev = "update_user_list"}

\* task t runs the disconnect handler in this step
Leaving(t) == At(t, "disconnect", "start") /\ tasks'[t] # tasks[t]

\* task t emits the events of an accepted register in this step
Announcing(t) == At(t, "register", "emit") /\ tasks'[t] # tasks[t]

\* C23: the registry changes only in an accepted register and in the
\* disconnect of a registered connection; each of the two emits one
\* update_user_list broadcast with the registry as it was right after the
\* change (the register once it has left the lock), and no other step emits
\* an update_user_list: a rejected register and the disconnect of a
\* connection without a name change nothing and broadcast nothing
C23_BroadcastIffRegistryChanges ==
    [][/\ clients' # clients =>
             \/ \E t \in Slots :
                    /\ Deciding(t)
                    /\ tasks'[t].pc = "emit"
                    /\ tasks'[t].loc.users = clients_values(clients')
             \/ \E t \in Slots :
                    /\ Leaving(t)
                    /\ Len(emitted') = 1
                    /\ UserList(emitted'[1])
                    /\ emitted'[1].p.users = clients_values(clients')
       /\ \A t \in Slots :
             /\ Deciding(t) => (tasks'[t].pc = "emit" <=> clients' # clients)
             /\ Announcing(t) =>
                    /\ Cardinality(UserLists(emitted')) = 1
                    /\ UserList(emitted'[1])
                    /\ emitted'[1].p.users = tasks[t].loc.users
       /\ UserLists(emitted') # {} =>
             \/ \E t \in Slots : Announcing(t)
             \/ \E t \in Slots : Leaving(t) /\ clients' # clients]_vars

\* one of two registered connections left and the others were told who is
\* still there
C23_Witness ==
    /\ Len(emitted) = 1
    /\ UserList(emitted[1])
    /\ emitted[1].by.kind = "disconnect"
    /\ emitted[1].p.users = clients_values(clients)
    /\ Len(clients) = 1

(***************************************************************************)
(* Public messages.                                                        *)
(***************************************************************************)
\* the elements of a sequence
Range(q) == {q[i] : i \in 1..Len(q)}

\* C24: a public message with text is emitted once, to every client with no
\* connection skipped, with the name the registry held for the sender when
\* the handler read it, the trimmed text and the timestamp of the request;
\* the entry that is emitted is the entry the handler appended to the history
C24_MessageBroadcast ==
    /\ [](\A i \in 1..Len(emitted) :
             emitted[i].ev = "message" =>
                 /\ Len(emitted) = 1
                 /\ emitted[i].to = NoSid
                 /\ emitted[i].skip = NoSid
                 /\ emitted[i].p.username = emitted[i].by.loc.username
                 /\ emitted[i].p.message = strip(emitted[i].by.data.message)
                 /\ emitted[i].p.timestamp = emitted[i].by.data.timestamp
                 /\ emitted[i].p \in Range(public_history))
    /\ [][\A t \in Slots :
             /\ (At(t, "message", "start") /\ tasks'[t] # tasks[t]
                    /\ strip(tasks[t].data.message) # <<>>) =>
                    /\ tasks'[t].pc = "append"
                    /\ tasks'[t].loc.username = clients_get(clients, tasks[t].sid, Unknown)
             /\ (At(t, "message", "append") /\ tasks'[t] # tasks[t]) =>
                    /\ tasks'[t].pc = "emit"
                    /\ public_history' = Append(public_history, broadcast_data(t))
                    /\ broadcast_data(t).username = tasks[t].loc.username]_vars

\* the connection registered as "a" sent " hi " with a timestamp
C24_Witness ==
    /\ Len(emitted) = 1
    /\ emitted[1].ev = "message"
    /\ emitted[1].p.username = <<"a">>
    /\ clients_get(clients, emitted[1].by.sid, Unknown) = <<"a">>
    /\ emitted[1].p.message = <<"hi">>
    /\ emitted[1].p.timestamp = Timestamp
    /\ Len(clients) = 2

(***************************************************************************)
(* Rejected requests.                                                      *)
(***************************************************************************)
\* the public message of task t has no text and no valid file
EmptyMessage(t) ==
    /\ At(t, "message", "start")
    /\ strip(tasks[t].data.message) = <<>>
    /\ ~sanitize_file_payload(tasks[t].data.file).present

\* C25: the step that rejects a public message with no text and no valid
\* file emits one error event, addressed to the connection that sent the
\* message, and leaves the registry, the history, the private messages and
\* the counter as they were
C25_RejectedGetsError ==
    [][\A t \in Slots :
          (EmptyMessage(t) /\ tasks'[t] # tasks[t]) =>
              /\ Len(emitted') = 1
              /\ emitted'[1].ev = "error"
              /\ emitted'[1].to = tasks[t].sid
              /\ UNCHANGED <<clients, public_history, private_messages,
                             private_message_counter>>]_vars

(***************************************************************************)
(* File payloads.                                                          *)
(***************************************************************************)
\* ceil(size * 4 / 3) + 8: the longest base64 text allowed for a declared size
EncodedBound(size) == (size * 4 + 2) \div 3 + 8

\* C26: a file payload that the server delivers has a declared size of at
\* most MAX_FILE_BYTES and a base64 text no longer than the bound for its
\* declared size, and is delivered as it was received
C26_AcceptedWithinDeclaredSize ==
    \A i \in 1..Len(emitted) :
        (emitted[i].ev = "message" /\ emitted[i].p.file.present) =>
            /\ emitted[i].p.file = emitted[i].by.data.file
            /\ emitted[i].p.file.size <= MAX_FILE_BYTES
            /\ emitted[i].p.file.len <= EncodedBound(emitted[i].p.file.size)

(***************************************************************************)
(* Typing indicators.                                                      *)
(***************************************************************************)
\* entries i and j of the log are about the same context and peer
SamePair(i, j) ==
    /\ typing_log[i].context = typing_log[j].context
    /\ typing_log[i].recipient = typing_log[j].recipient

\* C27: of the typing events sent within one connection, two that follow
\* each other for the same context and peer differ in is_typing
C27_NoRepeatedTypingState ==
    \A i, j \in 1..Len(typing_log) :
        (i < j /\ SamePair(i, j)
             /\ typing_log[i].is_typing = typing_log[j].is_typing) =>
            \E k \in (i + 1)..(j - 1) :
                SamePair(i, k) /\ typing_log[k].is_typing # typing_log[i].is_typing

(***************************************************************************)
(* The flush at connect.                                                   *)
(***************************************************************************)
\* the register events of a sequence
Registers(events) == Cardinality({i \in 1..Len(events) : events[i].event = "register"})

\* the connect handler is past the insertion of the synthetic register
Flushing == handler.pc \in {"send", "idle"} /\ qtrace.flushes > 0

\* C28 (as amended): with a desired username set, a flush holds one
\* synthetic register, at its head, when no register was buffered, and
\* otherwise just the registers that were buffered, one or more; the
\* buffered actions follow in buffer order, and from the copy to the end of
\* the flush the buffer is empty
C28_FlushRegisters ==
    /\ (Flushing /\ qtrace.registration # <<>>) =>
           /\ Registers(FlushSequence) >= 1
           /\ Registers(FlushSequence) =
                  IF Registers(qtrace.buffered) = 0 THEN 1
                  ELSE Registers(qtrace.buffered)
           /\ Registers(qtrace.buffered) = 0 =>
                  /\ FlushSequence[1] = Action("register", qtrace.registration)
                  /\ Tail(FlushSequence) = qtrace.buffered
           /\ Registers(qtrace.buffered) > 0 => FlushSequence = qtrace.buffered
    /\ (Flushing /\ qtrace.registration = <<>>) => FlushSequence = qtrace.buffered
    /\ handler.pc \in {"insert", "send"} => pending_events = <<>>

\* x and then register a were buffered; the flush handed over just these
C28_Witness ==
    /\ handler.pc = "idle"
    /\ qtrace.registration = <<"a">>
    /\ qtrace.buffered = <<Action("message", <<"x">>), Action("register", <<"a">>)>>
    /\ qtrace.handed = qtrace.buffered
    /\ sent = qtrace.buffered
    /\ pending_events = <<>>

\* C28 (as stated): with a desired username set, a flush holds exactly one
\* register
C28_ExactlyOneRegister ==
    (Flushing /\ qtrace.registration # <<>>) => Registers(FlushSequence) = 1

\* C29: every turn of the flush loop takes the next action of the flush,
\* hands it to the transport once and goes on to the one after it, whether
\* the transport took it or raised; a refused action is reported as an
\* error, is not put back into the buffer and is not handed over again;
\* the handler returns only when nothing of the flush is left
C29_FlushSurvivesFailure ==
    /\ [](handler.pc = "idle" => handler.pending = <<>>)
    /\ [][(handler.pc = "send" /\ handler' # handler) =>
             LET next == Head(handler.pending) IN
             /\ qtrace'.handed = Append(qtrace.handed, next)
             /\ handler'.pending = Tail(handler.pending)
             /\ handler'.pc = IF Tail(handler.pending) = <<>> THEN "idle" ELSE "send"
             /\ pending_events' = pending_events
             /\ IF link = "up"
                THEN sent' = Append(sent, next) /\ notified' = <<>>
                ELSE sent' = sent /\ notified' = <<ErrFailedToSend>>]_vars

\* the connection was lost before the flush began: x was refused, y was
\* still attempted and refused too, neither is buffered again
C29_Witness ==
    /\ handler.pc = "idle"
    /\ qtrace.drops = 1
    /\ qtrace.handed = <<Action("message", <<"x">>), Action("message", <<"y">>)>>
    /\ sent = <<>>
    /\ notified = <<ErrFailedToSend>>
    /\ pending_events = <<>>

(***************************************************************************)
(* Transfer records of the server.                                         *)
(***************************************************************************)
\* task t is about to run the locked block of _handle_file_chunk, or of
\* file_transfer_ack, for transfer id
Relaying(t, id) ==
    At(t, "private_file_chunk", "relay") /\ tasks[t].data.transfer_id = id
        /\ tasks'[t] # tasks[t]

Acking(t, id) ==
    At(t, "file_transfer_ack", "start") /\ tasks[t].data.transfer_id = id
        /\ tasks'[t] # tasks[t]

\* C30: a record appears only in the step that handles a chunk of its id,
\* with the connection of that chunk as sender, and the first chunk of an id
\* always creates it; a record disappears only in the step that handles a
\* file_transfer_ack for its id, and that step sends one file_transfer_ack
\* event with the id, the success flag and the error text of the request to
\* the recorded sender; a record that stays keeps its sender; an ack for an
\* id without record changes no record and sends nothing
C30_RecordLifecycle ==
    [][\A id \in TransferIds :
          LET had == id \in DOMAIN active_file_transfers
              has == id \in DOMAIN active_file_transfers'
          IN  /\ (~had /\ has) =>
                     \E t \in Slots :
                         /\ Relaying(t, id)
                         /\ active_file_transfers'[id].sender_sid = tasks[t].sid
              /\ (had /\ ~has) => \E t \in Slots : Acking(t, id)
              /\ (had /\ has) =>
                     active_file_transfers'[id].sender_sid =
                         active_file_transfers[id].sender_sid
              /\ \A t \in Slots :
                     /\ Relaying(t, id) => has
                     /\ (Acking(t, id) /\ had) =>
                            /\ ~has
                            /\ Len(emitted') = 1
                            /\ emitted'[1].ev = "file_transfer_ack"
                            /\ emitted'[1].to = active_file_transfers[id].sender_sid
                            /\ emitted'[1].p = [transfer_id |-> id,
                                                success |-> tasks[t].data.success,
                                                error |-> tasks[t].data.error]
                     /\ (Acking(t, id) /\ ~had) =>
                            /\ active_file_transfers' = active_file_transfers
                            /\ emitted' = <<>>]_vars

\* connection 1 sent both chunks of transfer 1 and closed; its record
\* outlived the disconnect until connection 2 reported a failure, which was
\* passed on to connection 1
C30_Witness ==
    /\ conn[1] = "closed"
    /\ trace.count["private_file_chunk"] = 2
    /\ trace.count["disconnect"] = 1
    /\ \A t \in Slots : tasks[t].kind = "idle"
    /\ active_file_transfers = <<>>
    /\ Len(emitted) = 1
    /\ emitted[1].ev = "file_transfer_ack"
    /\ emitted[1].to = 1
    /\ emitted[1].by.sid = 2
    /\ emitted[1].p.success = FALSE
    /\ emitted[1].p.error = "bad hash"

(***************************************************************************)
(* Locks.                                                                  *)
(***************************************************************************)
\* C31: no client handler is left waiting for _transfer_lock: whenever a
\* handler has finished its step the lock is free again, so the next
\* handler of the event thread can take it
C31_NoHandlerBlocked == transfer_lock = 0

\* C32: from the copy of the buffer to the last send of the flush nobody
\* but the connect handler hands an action to the transport
C32_FlushIsCritical ==
    [][(handler.pc \in {"insert", "send"} /\ handler' = handler) => sent' = sent]_vars

(***************************************************************************)
(* Private messages and disconnects.                                       *)
(***************************************************************************)
\* C33: the step that inserts a private message record finds the
\* recipient's connection in the registry, under the recipient's name
C33_RecipientPresentAtInsert ==
    [][\A t \in Slots :
          (At(t, "private_message", "store") /\ tasks'[t] # tasks[t]) =>
              clients_get(clients, tasks[t].loc.rsid, <<>>) = tasks[t].data.recipient]_vars

(***************************************************************************)
(* Connect handshakes of the client.                                       *)
(***************************************************************************)
\* C34: at most one _connect thread is inside self._sio.connect at a time;
\* a thread is started only by a client that is neither connected nor
\* connecting, which becomes connecting; a thread whose handshake fails
\* clears the connecting flag
C34_OneHandshake ==
    /\ [](qtrace.dials <= 1)
    /\ [][/\ qtrace'.dials > qtrace.dials =>
                /\ ~connected /\ ~connecting
                /\ connecting'
                /\ qtrace.dials = 0
          /\ (qtrace'.dials < qtrace.dials /\ link' # "up") => ~connecting']_vars

\* a second handshake is in flight although the connection was never lost:
\* the first one failed and a later emit started a new one
C34_Witness ==
    /\ qtrace.dialed = 2
    /\ qtrace.dials = 1
    /\ qtrace.drops = 0
    /\ connecting
    /\ ~connected
    /\ link = "dialing"

(***************************************************************************)
(* Chunk order of the sending client.                                      *)
(***************************************************************************)
\* C35: a file sent while a peer public key is cached leaves as the chunk
\* events of one transfer, with the indices 0, 1, ... in this order, each
\* once, and the wrapped AES key on chunk 0 only
C35_ChunksAscending ==
    (outbox # <<>> /\ strace.key_cached) =>
        \A n \in 1..Len(outbox) :
            /\ outbox[n].event \in {"private_file_chunk", "public_file_chunk"}
            /\ outbox[n].chunk_index = n - 1
            /\ (outbox[n].encrypted_aes_key # <<>>) <=> (n = 1)

(***************************************************************************)
(* Order of the user-list broadcasts.                                      *)
(***************************************************************************)
\* C36: when every handler has finished and the last of them ended by
\* emitting update_user_list, the list it sent is the registry: the last
\* list sent is never older than one sent before it
C36_LastListIsRegistry ==
    (AllIdle /\ Len(emitted) = 1 /\ emitted[1].ev = "update_user_list") =>
        emitted[1].p.users = clients_values(clients)

(***************************************************************************)
(* Order of the message broadcasts.                                        *)
(***************************************************************************)
\* the place of an entry in the public history
Place(entry) == CHOOSE i \in 1..Len(public_history) : public_history[i] = entry

\* C37: when the broadcast of an entry is emitted, no other entry that
\* stands before it in the history is still waiting for its broadcast
C37_BroadcastsInHistoryOrder ==
    \A i \in 1..Len(emitted), t \in Slots :
        (/\ emitted[i].ev = "message"
         /\ At(t, "message", "emit")
         /\ broadcast_data(t) # emitted[i].p)
            => Place(emitted[i].p) < Place(broadcast_data(t))

(***************************************************************************)
(* The confirmed username.                                                 *)
(***************************************************************************)
\* C38: the confirmed username of the client is empty or a name that the
\* server has stored for the client's own connection
C38_OwnNameOnly == own_username # <<>> => own_username \in name_accepted.names

(***************************************************************************)
(* Forwarded acknowledgements.                                             *)
(***************************************************************************)
\* C39: over a run the server forwards at most one file_transfer_ack per
\* transfer id to the sender
C39_OneAckPerTransfer == \A id \in TransferIds : trace.forwarded[id] <= 1

(***************************************************************************)
(* Senders of public messages.                                             *)
(***************************************************************************)
\* C40: a public message is accepted for the history and the broadcast
\* only from a connection that the registry binds to a name, and under
\* that name
C40_SenderRegistered ==
    [][\A t \in Slots :
          (At(t, "message", "start") /\ tasks'[t].kind = "message"
               /\ tasks'[t].pc = "append") =>
              /\ clients_get(clients, tasks[t].sid, <<>>) # <<>>
              /\ tasks'[t].loc.username = clients_get(clients, tasks[t].sid, <<>>)]_vars

=============================================================================
